---- MODULE Spec2Model ----
(***************************************************************************)
(* Index lifecycle management of src/ilm.py (class Ilm) against a cluster  *)
(* whose requests may fail.                                                *)
(*                                                                         *)
(* Names are sequences of segments ("log", "-1", "-snapshot", ...), so     *)
(* that the prefix, suffix and replace operations of the code act on them  *)
(* as they act on the strings.  Times are seconds since the epoch; the     *)
(* clock stands still while an operation runs (a time.sleep is recorded in *)
(* run.slept, it does not move `now`); an age                              *)
(* is kept in whole seconds (the floor of the float the code computes), so *)
(* `age_days >= N` of the code is `age >= Days(N)` here, and the unknown    *)
(* age -1.0 (days) is -SecondsPerDay.                                      *)
(***************************************************************************)
EXTENDS Integers, Sequences, FiniteSets, TLC

VARIABLES
    indices,               \* cluster: index name -> [created, store, write]
    snapshots,             \* cluster: snapshot name -> row of the catalog + detail
    now,                   \* time.time(), in seconds
    hot_storage_days,      \* Ilm.hot_storage_days
    total_retention_days,  \* Ilm.total_retention_days
    op,                    \* the top-level operation in progress
    pc,                    \* position inside it
    scan,                  \* locals of the top-level loops
    run,                   \* locals of _snapshot_and_replace_index
    log,                   \* history: the requests issued so far (a set)
    last,                  \* history: the latest of them
    first                  \* history: what the first of two runs did

vars == <<indices, snapshots, now, hot_storage_days, total_retention_days,
          op, pc, scan, run, log, last, first>>

history == <<log, last, first>>

cluster == <<indices, snapshots>>
config == <<hot_storage_days, total_retention_days>>

-----------------------------------------------------------------------------
(* Program constants *)

SecondsPerDay == 86400
RidiculousAgeDays == 20000
PollIntervalSeconds == 30
BackoffBaseSeconds == 30
MaxRetries == 3
\* Settings: rollover_size_gb and rollover_age_days when none are given
RolloverSizeGb == 50
RolloverAgeDays == 30

(* Bounds of the model *)

\* max_wait_minutes of _wait_for_snapshot_completion (60 in the code)
MaxWaitMinutes == 1

-----------------------------------------------------------------------------
(* Names *)

SnapshotSuffix == "-snapshot"
WriteSuffix == "-write"
managed_index_patterns == {<<"log">>, <<"alert">>}

\* str.endswith
EndsWith(name, seg) == Len(name) > 0 /\ name[Len(name)] = seg

\* str.startswith(tuple of prefixes)
StartsWithAny(name, prefixes) ==
    \E p \in prefixes : Len(p) <= Len(name) /\ SubSeq(name, 1, Len(p)) = p

\* str.replace(seg, ''): every occurrence goes, not only a trailing one
Replace(name, seg) == SelectSeq(name, LAMBDA s : s # seg)

\* f"{index_name}-snapshot"
SearchableName(name) == Append(name, SnapshotSuffix)

\* variant: _should_manage_index without the test of the "-write" ending
should_manage_index_AnyEnding(index_name) ==
    StartsWithAny(index_name, managed_index_patterns)

should_manage_index(index_name) ==
    IF EndsWith(index_name, WriteSuffix)
    THEN FALSE
    ELSE StartsWithAny(index_name, managed_index_patterns)

\* The names of the model, in the order /_cat/indices lists them
Log1 == <<"log", "-1">>
Log2 == <<"log", "-2">>
Sys1 == <<"sys", "-1">>
Full1 == <<"full", "-1">>
NameOrder == <<SearchableName(Log1), Log1, SearchableName(Log2), Log2,
               SearchableName(Sys1), Sys1, Full1>>
ListOf(S) == SelectSeq(NameOrder, LAMBDA n : n \in S)

\* The aliases of the model.  An index is in the alias of its series: the
\* indices log-<n> in log-write, alert-<n> in alert-write, and sys-<n> in
\* sys-current, an alias that is not named as a write alias.
Alert1 == <<"alert", "-1">>
LogWrite == <<"log", WriteSuffix>>
AlertWrite == <<"alert", WriteSuffix>>
AliasName(index_name) ==
    IF index_name[1] = "sys" THEN <<"sys", "-current">>
    ELSE <<index_name[1], WriteSuffix>>

\* the index a rollover of the alias of `index_name` creates
Successor(index_name) ==
    IF index_name[2] = "-1" THEN <<index_name[1], "-2">> ELSE <<index_name[1], "-3">>

get_corresponding_snapshot_name(index_name) ==
    IF EndsWith(index_name, SnapshotSuffix)
    THEN Replace(index_name, SnapshotSuffix)
    ELSE index_name

-----------------------------------------------------------------------------
(* The answers of the cluster *)

\* An operation runs once, against a cluster whose every answer may be an
\* error (first.pass = 0), or twice in a row against a cluster that answers
\* with an error only what it cannot do (first.pass = 1, then 2); first keeps
\* the names of the first run's cluster at its start and at its end, and
\* whether a workflow of that run had an attempt that failed.
NoFirst == [pass |-> 0, before |-> <<{}, {}>>, between |-> <<{}, {}>>, failed |-> FALSE]
Errors == {"err", "fail", "exc_done", "exc_lost"}
Answers(all) ==
    IF first.pass = 0 THEN all
    ELSE IF all \ Errors # {} THEN all \ Errors
    ELSE all \cap {"err", "fail"}

-----------------------------------------------------------------------------
(* Times and ages *)

Days(n) == n * SecondsPerDay
UnknownAge == -SecondsPerDay

\* A millisecond timestamp s*1000 + ms, 0 <= ms < 1000
Millis(s, ms) == [k |-> "ms", s |-> s, ms |-> ms]
MissingMillis == [k |-> "missing", s |-> 0, ms |-> 0]

\* A field of a catalog row: absent, not a number, or an integer (seconds)
Absent == [k |-> "absent", v |-> 0]
NotANumber == [k |-> "bad", v |-> 0]
Secs(v) == [k |-> "int", v |-> v]

\* variant: a field of 0 taken for a usable time
Usable_Zero(field) == field.k = "int"

\* int(x) if x is not None else None, ValueError/TypeError -> None; and then
\* `not x`: None and 0 are unusable
Usable(field) == field.k = "int" /\ field.v # 0

\* snap.get("end_epoch", snap.get("endEpoch"))
Either(row, snake, camel) == IF row[snake].k # "absent" THEN row[snake] ELSE row[camel]

\* `x and x > 0` followed by int(x) // 1000
UsableMillis(m) == m.k = "ms" /\ (m.s > 0 \/ (m.s = 0 /\ m.ms > 0))

\* floor(now - created_ms / 1000)
AgeOfMillis(m, t) == t - m.s - (IF m.ms > 0 THEN 1 ELSE 0)

\* variant: _snapshot_age_days without its last test, the age computed from
\* whatever epoch the four sources left, 0 included
snapshot_age_days_NoSentinel(row, detail, t) ==
    LET end1 == IF row.end_epoch.k # "absent" THEN row.end_epoch ELSE row.endEpoch
        start1 == IF row.start_epoch.k # "absent" THEN row.start_epoch
                  ELSE row.startEpoch
        fromList == IF end1.k = "int" /\ end1.v # 0 THEN end1.v
                    ELSE IF start1.k = "int" /\ start1.v # 0 THEN start1.v
                    ELSE 0
        fromDetail == IF detail = "fail" THEN 0
                      ELSE IF row.end_time_in_millis.k = "ms"
                              /\ row.end_time_in_millis.s > 0
                           THEN row.end_time_in_millis.s
                      ELSE IF row.start_time_in_millis.k = "ms"
                              /\ row.start_time_in_millis.s > 0
                           THEN row.start_time_in_millis.s
                      ELSE 0
    IN  t - (IF fromList # 0 THEN fromList ELSE fromDetail)

\* _snapshot_age_days(snap); detail is what GET _snapshot/data/<id> gave:
\* "fail" (exception or no snapshots), or the snapshot's detail times
snapshot_age_days(row, detail, t) ==
    LET end1 == Either(row, "end_epoch", "endEpoch")
        start1 == Either(row, "start_epoch", "startEpoch")
        fromList == IF Usable(end1) THEN end1.v
                    ELSE IF Usable(start1) THEN start1.v
                    ELSE 0
        fromDetail == IF detail = "fail" THEN 0
                      ELSE IF UsableMillis(row.end_time_in_millis)
                           THEN row.end_time_in_millis.s
                      ELSE IF UsableMillis(row.start_time_in_millis)
                           THEN row.start_time_in_millis.s
                      ELSE 0
        end_epoch == IF fromList # 0 THEN fromList ELSE fromDetail
    IN  IF end_epoch = 0 THEN UnknownAge ELSE t - end_epoch

\* whether _snapshot_age_days issues the detail query for this row
NeedsDetail(row) ==
    ~Usable(Either(row, "end_epoch", "endEpoch"))
    /\ ~Usable(Either(row, "start_epoch", "startEpoch"))

DetailResponses(row) == IF NeedsDetail(row) THEN Answers({"ok", "fail"}) ELSE {"ok"}

\* _get_index_age_days(index_name); settings is what GET <index>/_settings gave
get_index_age_days(index_name, settings, t) ==
    IF settings # "ok" \/ index_name \notin DOMAIN indices THEN 0
    ELSE IF indices[index_name].created.k # "ms" THEN 0
    ELSE AgeOfMillis(indices[index_name].created, t)

-----------------------------------------------------------------------------
(* The cluster: what a request does, and the answers it can give.           *)
(* A mutating request is answered "ok", "err" (an error status, nothing     *)
(* done), or raises: "exc_done" (the cluster did it, the answer was lost)   *)
(* or "exc_lost" (the request never arrived).                               *)

Raised(o) == o \in {"exc_done", "exc_lost"}
Done(o) == o \in {"ok", "exc_done"}

Without(f, x) == [y \in DOMAIN f \ {x} |-> f[y]]
With(f, x, v) == [y \in DOMAIN f \cup {x} |-> IF y = x THEN v ELSE f[y]]

\* a searchable-snapshot index mounted from snapshot `name` exists
MountedFrom(name) ==
    /\ SearchableName(name) \in DOMAIN indices
    /\ indices[SearchableName(name)].store = "remote_snapshot"

\* DELETE /<index>: 200, or 404 when it is gone already (both "ok")
DeleteIndexOutcomes == Answers({"ok", "err", "exc_done", "exc_lost"})
IndicesAfterDelete(name, o) == IF Done(o) THEN Without(indices, name) ELSE indices

\* DELETE /_snapshot/data/<snapshot>: refused while an index is mounted from it
DeleteSnapshotOutcomes(name) ==
    IF MountedFrom(name) THEN Answers({"err", "exc_lost"})
    ELSE Answers({"ok", "err", "exc_done", "exc_lost"})
SnapshotsAfterDelete(name, o) == IF Done(o) THEN Without(snapshots, name) ELSE snapshots

\* the catalog row of a snapshot of `index_name` started at t
StartedSnapshot(index_name, t) ==
    [state |-> "IN_PROGRESS",
     end_epoch |-> Secs(0), endEpoch |-> Absent,
     start_epoch |-> Secs(t), startEpoch |-> Absent,
     end_time_in_millis |-> Millis(0, 0),
     start_time_in_millis |-> Millis(t, 0),
     indices |-> {index_name}]

\* the row once the snapshot ended in `state` at t
EndedSnapshot(row, state, t) ==
    [row EXCEPT !.state = state, !.end_epoch = Secs(t),
                !.end_time_in_millis = Millis(t, 0)]

\* PUT /_snapshot/data/<name>: 200 starts it, 400 when it exists already
CreateSnapshotOutcomes(name) ==
    IF name \in DOMAIN snapshots THEN Answers({"exists", "err", "exc_lost"})
    ELSE IF name \in DOMAIN indices THEN Answers({"ok", "err", "exc_done", "exc_lost"})
    ELSE Answers({"err", "exc_lost"})
SnapshotsAfterCreate(name, o) ==
    IF Done(o) THEN With(snapshots, name, StartedSnapshot(name, now)) ELSE snapshots

\* POST /_snapshot/data/<snapshot>/_restore of `index_name` as <index_name>-snapshot
CanMount(snapshot_name, index_name) ==
    /\ snapshot_name \in DOMAIN snapshots
    /\ snapshots[snapshot_name].state \in {"SUCCESS", "PARTIAL"}
    /\ index_name \in snapshots[snapshot_name].indices
    /\ SearchableName(index_name) \notin DOMAIN indices
MountOutcomes(snapshot_name, index_name) ==
    IF CanMount(snapshot_name, index_name)
    THEN Answers({"ok", "err", "exc_done", "exc_lost"})
    ELSE Answers({"err", "exc_lost"})
MountedIndex(t) == [created |-> Millis(t, 0), store |-> "remote_snapshot", write |-> FALSE]
IndicesAfterMount(index_name, o) ==
    IF Done(o) THEN With(indices, SearchableName(index_name), MountedIndex(now))
    ELSE indices

\* GET /_snapshot/data/<name>/_status and GET /_snapshot/data/<name>: the state,
\* or "fail" (an error status, no snapshots in the answer, or an exception)
SnapshotStateResponses(name) ==
    Answers({"fail"} \cup
            (IF name \in DOMAIN snapshots THEN {snapshots[name].state} ELSE {}))

\* HEAD /<index>, GET /<index>/_settings, GET /<index>/_alias: answered or not
ReadOutcomes == Answers({"ok", "fail"})

\* the cluster finishes a snapshot that is in progress
SnapshotEnds ==
    /\ \E name \in DOMAIN snapshots, state \in {"SUCCESS", "PARTIAL", "FAILED"} :
          /\ snapshots[name].state = "IN_PROGRESS"
          /\ snapshots' = [snapshots EXCEPT ![name] = EndedSnapshot(@, state, now)]
    /\ pc \in {"w_poll"}
    /\ UNCHANGED <<indices, now, config, op, pc, scan, run, history>>

-----------------------------------------------------------------------------
(* History *)

\* A request: what it asks (req, name), the statement that issues it (by), the
\* age computed for the item (cleanup_old_data), and what held when it was
\* issued: whether the item existed (present); for the delete of a snapshot,
\* whether an index was mounted from it (mounted) and whether the same operation
\* had issued the delete of that index (unmounted); for the delete of the
\* original index, the steps the attempt had completed.  An invocation of the
\* workflow by the scan is recorded in the same way (req "transition"), with
\* whether the index was the write index of an alias at that time (write).
\* For a mount of restore_missing_searchable_snapshots: whether the index or
\* its searchable name was among existing_indices (existing).  For a rollover:
\* the conditions of its body.
NoAge == UnknownAge
CleanupPhases == {"phase1", "phase2", "phase3"}
SameOperation(by1, by2) == (by1 \in CleanupPhases) = (by2 \in CleanupPhases)
NoRequest ==
    [req |-> "none", name |-> <<>>, by |-> "none", age |-> NoAge, present |-> FALSE,
     mounted |-> FALSE, unmounted |-> FALSE, write |-> FALSE, existing |-> FALSE,
     steps |-> <<>>, conditions |-> <<>>]
\* body = {"conditions": {"max_size": f"{rollover_size_gb}gb", "max_age": ...}}
RolloverConditions ==
    [max_size |-> <<RolloverSizeGb, "gb">>, max_age |-> <<RolloverAgeDays, "d">>]
Request(req, name, by, age) ==
    [req |-> req, name |-> name, by |-> by, age |-> age,
     present |-> IF req = "delete_snapshot" THEN name \in DOMAIN snapshots
                 ELSE IF req = "delete_index" THEN name \in DOMAIN indices
                 ELSE FALSE,
     mounted |-> (req = "delete_snapshot" /\ MountedFrom(name)),
     unmounted |-> (req = "delete_snapshot" /\
                    \E e \in log : /\ e.req = "delete_index"
                                   /\ e.name = SearchableName(name)
                                   /\ SameOperation(e.by, by)),
     write |-> (name \in DOMAIN indices /\ indices[name].write),
     existing |-> (by = "restore" /\ ( \/ name \in scan.existing
                                       \/ SearchableName(name) \in scan.existing )),
     steps |-> IF by = "delete_original" THEN run.steps ELSE <<>>,
     conditions |-> IF req = "rollover" THEN RolloverConditions ELSE <<>>]
Issue(req, name, by, age) ==
    /\ log' = log \cup {Request(req, name, by, age)}
    /\ last' = Request(req, name, by, age)
    /\ first' = first

-----------------------------------------------------------------------------
(* _snapshot_and_replace_index(index_name, max_retries = 3)                 *)
(* run = [index_name, attempt, poll_count, in_except, steps, failed_at,     *)
(* slept, cleanups, mount, cleanup, result]; steps is history (the steps of the current    *)
(* attempt that succeeded), and so are failed_at (the steps at which an    *)
(* attempt failed), slept (the seconds of the latest time.sleep) and       *)
(* cleanups (the calls of _cleanup_failed_snapshot in the current attempt).*)

Bool(b) == IF b THEN "True" ELSE "False"

\* history of _create_searchable_snapshot in the current attempt: what its two
\* checks answered, the requests it issued with their outcomes, and its result
NoMount ==
    [index_exists |-> "none", is_searchable_snapshot |-> "none", requests |-> <<>>,
     result |-> "none"]
\* history of the latest _cleanup_failed_snapshot: what its two checks answered
\* and the requests it issued
NoCleanup == [index_exists |-> "none", snapshot_exists |-> "none", requests |-> <<>>]
Cleaning(r, req, name) ==
    [r EXCEPT !.cleanup.requests = Append(@, [req |-> req, name |-> name])]
Mounting(r, req, o, result) ==
    [r EXCEPT !.mount.requests = Append(@, [req |-> req, outcome |-> o]),
              !.mount.result = result]

RECURSIVE Pow2(_)
Pow2(n) == IF n = 0 THEN 1 ELSE 2 * Pow2(n - 1)

\* variant: one poll more than the limit allows
max_polls_Inclusive(max_wait_minutes) ==
    (max_wait_minutes * 60) \div PollIntervalSeconds + 1

\* max_polls = (max_wait_minutes * 60) // poll_interval_seconds
max_polls(max_wait_minutes) == (max_wait_minutes * 60) \div PollIntervalSeconds

MaxPolls == max_polls(MaxWaitMinutes)

\* what a status request may give that is no state: an error status, an answer
\* without snapshots, an exception ("fail" when the three are not told apart)
NoState == {"fail", "error_status", "no_snapshots", "exception"}

\* variant: a state that is not recognized ends the polling
poll_verdict_Strict(response) ==
    IF response \in NoState THEN "False"
    ELSE IF response = "SUCCESS" THEN "True"
    ELSE IF response = "PARTIAL" THEN "True"
    ELSE IF response = "FAILED" THEN "False"
    ELSE IF response \in {"IN_PROGRESS", "STARTED", "INIT"} THEN "continue"
    ELSE "False"

\* the body of the polling loop: what one status request leads to
poll_verdict(response) ==
    IF response \in NoState THEN "False"
    ELSE IF response = "SUCCESS" THEN "True"
    ELSE IF response = "PARTIAL" THEN "True"
    ELSE IF response = "FAILED" THEN "False"
    ELSE IF response \in {"IN_PROGRESS", "STARTED", "INIT"} THEN "continue"
    ELSE "continue"

\* _wait_for_snapshot_completion, the status requests answering `responses` in
\* turn: the result, the answers it saw (polled) and its sleeps (slept)
RECURSIVE wait_for_snapshot_completion(_, _, _, _)
wait_for_snapshot_completion(responses, max_wait_minutes, poll_count, slept) ==
    IF poll_count < max_polls(max_wait_minutes)
    THEN LET response == responses[poll_count + 1]
             polled == SubSeq(responses, 1, poll_count + 1)
         IN  IF poll_verdict(response) = "continue"
             THEN wait_for_snapshot_completion(responses, max_wait_minutes,
                      poll_count + 1, Append(slept, PollIntervalSeconds))
             ELSE [result |-> poll_verdict(response) = "True",
                   polled |-> polled, slept |-> slept]
    ELSE [result |-> FALSE, polled |-> SubSeq(responses, 1, poll_count),
          slept |-> slept]

NewRun(index_name) ==
    [index_name |-> index_name, attempt |-> 0, poll_count |-> 0,
     in_except |-> FALSE, steps |-> <<>>, failed_at |-> {}, slept |-> 0,
     cleanups |-> 0, mount |-> NoMount, cleanup |-> NoCleanup, result |-> "running"]

\* history: the attempt fails at `step`
Fail(r, step) == [r EXCEPT !.failed_at = @ \cup {step}]

\* an exception raised inside the try block enters the except clause, whose
\* first statement is _cleanup_failed_snapshot; raised inside the except
\* clause, it leaves _snapshot_and_replace_index
RaiseIn(r) ==
    IF r.in_except THEN [r EXCEPT !.result = "raised"]
    ELSE [r EXCEPT !.in_except = TRUE]
PcAfterRaise(r) == IF r.in_except THEN "w_return" ELSE "w_cleanup_index_exists"

\* for attempt in range(max_retries)
Workflow_Attempt ==
    /\ pc = "w_attempt"
    /\ IF run.attempt < MaxRetries
       THEN /\ pc' = "w_create_snapshot"
            /\ run' = [run EXCEPT !.steps = <<>>, !.in_except = FALSE,
                                  !.cleanups = 0, !.mount = NoMount]
       ELSE /\ pc' = "w_return"
            /\ run' = [run EXCEPT !.result = "preserved"]
    /\ UNCHANGED <<cluster, now, config, op, scan, history>>

\* the status of the answer to the PUT: 200, 400 when the snapshot exists
\* already, and an error
CreateStatus(o) == IF o = "ok" THEN 200 ELSE IF o = "exists" THEN 400 ELSE 500

\* variant: a snapshot that exists already is a failure
create_snapshot_polls_Created(status_code) == status_code = 200

\* _create_snapshot: whether the status of the PUT leads to the polling
create_snapshot_polls(status_code) ==
    IF status_code = 400 THEN TRUE
    ELSE IF status_code # 200 THEN FALSE
    ELSE TRUE

\* _create_snapshot: the PUT
Workflow_CreateSnapshot ==
    /\ pc = "w_create_snapshot"
    /\ \E o \in CreateSnapshotOutcomes(run.index_name) :
          /\ snapshots' = SnapshotsAfterCreate(run.index_name, o)
          /\ Issue("create_snapshot", run.index_name, "create", NoAge)
          /\ IF Raised(o)
             THEN pc' = PcAfterRaise(run) /\ run' = RaiseIn(Fail(run, "create"))
             ELSE IF create_snapshot_polls(CreateStatus(o))
             THEN pc' = "w_poll" /\ run' = [run EXCEPT !.poll_count = 0]
             ELSE pc' = "w_cleanup_index_exists" /\ run' = Fail(run, "create")
    /\ UNCHANGED <<indices, now, config, op, scan>>

\* _wait_for_snapshot_completion: one turn of the polling loop
Workflow_Poll ==
    /\ pc = "w_poll"
    /\ IF run.poll_count < MaxPolls
       THEN \E state \in SnapshotStateResponses(run.index_name) :
               IF poll_verdict(state) = "True"
               THEN /\ pc' = "w_validate"
                    /\ run' = [run EXCEPT !.steps = Append(@, "create")]
               ELSE IF poll_verdict(state) = "False"
               THEN pc' = "w_cleanup_index_exists" /\ run' = Fail(run, "create")
               ELSE /\ pc' = "w_poll"
                    /\ run' = [run EXCEPT !.poll_count = @ + 1,
                                          !.slept = PollIntervalSeconds]
       ELSE pc' = "w_cleanup_index_exists" /\ run' = Fail(run, "create")
    /\ UNCHANGED <<cluster, now, config, op, scan, history>>

\* variant: only a complete snapshot is healthy
acceptable_state_Complete(state) == state = "SUCCESS"

\* _validate_snapshot_health: the test of the state
acceptable_state(state) ==
    IF state = "SUCCESS" THEN TRUE
    ELSE IF state = "PARTIAL" THEN TRUE
    ELSE FALSE

\* _validate_snapshot_health, the GET of the snapshot answering `response`; a
\* body it cannot read raises inside the try, and that gives False
validate_snapshot_health(response) ==
    IF response.raised THEN FALSE
    ELSE IF response.status_code # 200 THEN FALSE
    ELSE IF "snapshots" \notin DOMAIN response.body THEN FALSE
    ELSE IF response.body.snapshots = <<>> THEN FALSE
    ELSE LET snapshot_info == response.body.snapshots[1]
         IN  IF "state" \notin DOMAIN snapshot_info THEN FALSE
             ELSE acceptable_state(snapshot_info.state)

\* _validate_snapshot_health
Workflow_Validate ==
    /\ pc = "w_validate"
    /\ \E state \in SnapshotStateResponses(run.index_name) :
          IF acceptable_state(state)
          THEN /\ pc' = "w_mount_exists"
               /\ run' = [run EXCEPT !.steps = Append(@, "validate")]
          ELSE pc' = "w_cleanup_index_exists" /\ run' = Fail(run, "validate")
    /\ UNCHANGED <<cluster, now, config, op, scan, history>>

\* _index_exists(name): HEAD, and False when it fails
index_exists(name, r) == r = "ok" /\ name \in DOMAIN indices

\* _snapshot_exists(name): GET, and False when it fails
snapshot_exists(name, r) == r = "ok" /\ name \in DOMAIN snapshots

\* _is_searchable_snapshot(name): GET settings, and False when it fails
is_searchable_snapshot(name, r) ==
    r = "ok" /\ name \in DOMAIN indices /\ indices[name].store = "remote_snapshot"

\* _create_searchable_snapshot: if self._index_exists(searchable_name)
Workflow_MountExists ==
    /\ pc = "w_mount_exists"
    /\ \E r \in ReadOutcomes :
          /\ pc' = IF index_exists(SearchableName(run.index_name), r)
                   THEN "w_mount_kind" ELSE "w_mount"
          /\ run' = [run EXCEPT !.mount.index_exists =
                                    Bool(index_exists(SearchableName(run.index_name), r))]
    /\ UNCHANGED <<cluster, now, config, op, scan, history>>

\* _create_searchable_snapshot: if self._is_searchable_snapshot(searchable_name)
Workflow_MountKind ==
    /\ pc = "w_mount_kind"
    /\ \E r \in ReadOutcomes :
          IF is_searchable_snapshot(SearchableName(run.index_name), r)
          THEN /\ pc' = "w_delete_original"
               /\ run' = [run EXCEPT !.steps = Append(@, "mount"),
                                     !.mount.is_searchable_snapshot = "True",
                                     !.mount.result = "True"]
          ELSE /\ pc' = "w_mount_replace"
               /\ run' = [run EXCEPT !.mount.is_searchable_snapshot = "False"]
    /\ UNCHANGED <<cluster, now, config, op, scan, history>>

\* _create_searchable_snapshot: the index of that name is no mount, delete it
Workflow_MountReplace ==
    /\ pc = "w_mount_replace"
    /\ \E o \in DeleteIndexOutcomes :
          /\ indices' = IndicesAfterDelete(SearchableName(run.index_name), o)
          /\ Issue("delete_index", SearchableName(run.index_name), "mount_replace", NoAge)
          /\ IF Raised(o)
             THEN /\ pc' = PcAfterRaise(run)
                  /\ run' = Mounting(RaiseIn(Fail(run, "mount")), "delete_index", o,
                                     "raised")
             ELSE /\ pc' = "w_mount"
                  /\ run' = Mounting(run, "delete_index", o, "none")
    /\ UNCHANGED <<snapshots, now, config, op, scan>>

\* the status of the answer to the POST: 200, or an error
MountStatus(o) == IF o = "ok" THEN 200 ELSE 500

\* variant: whatever the POST answers is a success
mount_succeeded_Any(status_code) == TRUE

\* _create_searchable_snapshot: if response.status_code == 200
mount_succeeded(status_code) == status_code = 200

\* _create_searchable_snapshot: the POST _restore
Workflow_Mount ==
    /\ pc = "w_mount"
    /\ \E o \in MountOutcomes(run.index_name, run.index_name) :
          /\ indices' = IndicesAfterMount(run.index_name, o)
          /\ Issue("mount", run.index_name, "mount", NoAge)
          /\ IF Raised(o)
             THEN /\ pc' = PcAfterRaise(run)
                  /\ run' = Mounting(RaiseIn(Fail(run, "mount")), "mount", o, "raised")
             ELSE IF mount_succeeded(MountStatus(o))
             THEN /\ pc' = "w_delete_original"
                  /\ run' = Mounting([run EXCEPT !.steps = Append(@, "mount")],
                                     "mount", o, "True")
             ELSE /\ pc' = "w_cleanup_index_exists"
                  /\ run' = Mounting(Fail(run, "mount"), "mount", o, "False")
    /\ UNCHANGED <<snapshots, now, config, op, scan>>

\* self._delete_index(index_name); return
Workflow_DeleteOriginal ==
    /\ pc = "w_delete_original"
    /\ \E o \in DeleteIndexOutcomes :
          /\ indices' = IndicesAfterDelete(run.index_name, o)
          /\ Issue("delete_index", run.index_name, "delete_original", NoAge)
          /\ IF Raised(o)
             THEN pc' = PcAfterRaise(run) /\ run' = RaiseIn(Fail(run, "delete"))
             ELSE pc' = "w_return" /\ run' = [run EXCEPT !.result = "replaced"]
    /\ UNCHANGED <<snapshots, now, config, op, scan>>

\* variant: the cleanup between attempts aimed at the original index
CleanupIndexName_Original(index_name) == index_name

\* the name _cleanup_failed_snapshot removes first
CleanupIndexName(index_name) == SearchableName(index_name)

\* _cleanup_failed_snapshot: if self._index_exists(searchable_name)
Workflow_CleanupIndexExists ==
    /\ pc = "w_cleanup_index_exists"
    /\ \E r \in ReadOutcomes :
          /\ pc' = IF index_exists(CleanupIndexName(run.index_name), r)
                   THEN "w_cleanup_delete_index" ELSE "w_cleanup_snapshot_exists"
          /\ run' = [run EXCEPT
                        !.cleanups = @ + 1,
                        !.cleanup = [NoCleanup EXCEPT !.index_exists =
                            Bool(index_exists(CleanupIndexName(run.index_name), r))]]
    /\ UNCHANGED <<cluster, now, config, op, scan, history>>

\* _cleanup_failed_snapshot: self._delete_index(searchable_name)
Workflow_CleanupDeleteIndex ==
    /\ pc = "w_cleanup_delete_index"
    /\ \E o \in DeleteIndexOutcomes :
          /\ indices' = IndicesAfterDelete(CleanupIndexName(run.index_name), o)
          /\ Issue("delete_index", CleanupIndexName(run.index_name), "cleanup", NoAge)
          /\ LET r == Cleaning(run, "delete_index", CleanupIndexName(run.index_name))
             IN  IF Raised(o)
                 THEN pc' = PcAfterRaise(run) /\ run' = RaiseIn(r)
                 ELSE pc' = "w_cleanup_snapshot_exists" /\ run' = r
    /\ UNCHANGED <<snapshots, now, config, op, scan>>

\* _cleanup_failed_snapshot: if self._snapshot_exists(index_name)
Workflow_CleanupSnapshotExists ==
    /\ pc = "w_cleanup_snapshot_exists"
    /\ \E r \in ReadOutcomes :
          /\ pc' = IF snapshot_exists(run.index_name, r)
                   THEN "w_cleanup_delete_snapshot" ELSE "w_backoff"
          /\ run' = [run EXCEPT !.cleanup.snapshot_exists =
                                    Bool(snapshot_exists(run.index_name, r))]
    /\ UNCHANGED <<cluster, now, config, op, scan, history>>

\* _cleanup_failed_snapshot: self._delete_snapshot(index_name)
Workflow_CleanupDeleteSnapshot ==
    /\ pc = "w_cleanup_delete_snapshot"
    /\ \E o \in DeleteSnapshotOutcomes(run.index_name) :
          /\ snapshots' = SnapshotsAfterDelete(run.index_name, o)
          /\ Issue("delete_snapshot", run.index_name, "cleanup", NoAge)
          /\ LET r == Cleaning(run, "delete_snapshot", run.index_name)
             IN  IF Raised(o)
                 THEN pc' = PcAfterRaise(run) /\ run' = RaiseIn(r)
                 ELSE pc' = "w_backoff" /\ run' = r
    /\ UNCHANGED <<indices, now, config, op, scan>>

\* variant: the same wait after every attempt
delay_seconds_Same(attempt) == BackoffBaseSeconds

\* delay_seconds = 30 * (2 ** attempt)
delay_seconds(attempt) == BackoffBaseSeconds * Pow2(attempt)

\* if attempt < max_retries - 1: time.sleep(delay_seconds); next attempt
Workflow_Backoff ==
    /\ pc = "w_backoff"
    /\ run' = [run EXCEPT !.attempt = @ + 1, !.cleanup = NoCleanup,
                          !.slept = IF run.attempt < MaxRetries - 1
                                    THEN delay_seconds(run.attempt)
                                    ELSE 0]
    /\ pc' = "w_attempt"
    /\ UNCHANGED <<cluster, now, config, op, scan, history>>

Workflow ==
    \/ Workflow_Attempt
    \/ Workflow_CreateSnapshot
    \/ Workflow_Poll
    \/ Workflow_Validate
    \/ Workflow_MountExists
    \/ Workflow_MountKind
    \/ Workflow_MountReplace
    \/ Workflow_Mount
    \/ Workflow_DeleteOriginal
    \/ Workflow_CleanupIndexExists
    \/ Workflow_CleanupDeleteIndex
    \/ Workflow_CleanupSnapshotExists
    \/ Workflow_CleanupDeleteSnapshot
    \/ Workflow_Backoff
    \/ SnapshotEnds

-----------------------------------------------------------------------------
(* Catalog reads *)

\* no list is being walked
\* (unresolved and sent are history of check_and_rollover_by_size: the aliases
\* whose write index was not found, and the aliases of the rollover requests;
\* sent is history of restore_missing_searchable_snapshots too: the names of
\* the mounts it asked for, in the order of the requests;
\* failed is history of transition_old_indices_to_snapshots: a workflow it
\* invoked had an attempt that failed)
\* (examined is history of phase 1 of cleanup_old_data: the mount it looked at
\* last, whether get_snapshots() listed the snapshot it is named after, the ages
\* _snapshot_age_days and _get_index_age_days answered, the age the phase took
\* and whether it issued the delete)
NoExamined ==
    [name |-> <<>>, found |-> FALSE, snapshot_age |-> UnknownAge, index_age |-> 0,
     age_days |-> 0, deleted |-> FALSE]
\* (lookup is history of the scan of the transition and of phase 2: the index
\* the workflow was invoked for, or whose delete was issued, last; whether its
\* alias lookup had failed and whether its creation date could not be read)
NoLookup == [name |-> <<>>, alias_failed |-> FALSE, age_unread |-> FALSE]
\* (other is the second run of the workflow when two of them are in flight on
\* one index: its position and its locals while the first one is stepping)
NoOther == [pc |-> "none", run |-> NewRun(<<>>)]
NoScan == [list |-> <<>>, i |-> 0, snaps |-> <<>>, j |-> 0, age |-> NoAge,
           existing |-> {}, todo |-> <<>>, unresolved |-> {}, sent |-> <<>>,
           failed |-> FALSE, examined |-> NoExamined, lookup |-> NoLookup,
           other |-> NoOther]

\* _get_index_age_days answers its default: the request failed, or the answer
\* holds no creation date
AgeUnread(index_name, settings) ==
    \/ settings # "ok"
    \/ index_name \notin DOMAIN indices
    \/ indices[index_name].created.k # "ms"

\* get_indices(): [] when the request fails
get_indices(r) == IF r = "ok" THEN ListOf(DOMAIN indices) ELSE <<>>

\* ?s=endEpoch: the catalog lists the snapshots by end_epoch, ascending
EndEpochKey(name) ==
    LET f == Either(snapshots[name], "end_epoch", "endEpoch")
    IN  IF f.k = "int" THEN f.v ELSE 0
Position(name) == CHOOSE k \in 1..Len(NameOrder) : NameOrder[k] = name
ListedBefore(a, b) ==
    \/ EndEpochKey(a) < EndEpochKey(b)
    \/ EndEpochKey(a) = EndEpochKey(b) /\ Position(a) < Position(b)
SortedByEndEpoch(S) ==
    CHOOSE q \in [1..Cardinality(S) -> S] :
        \A i, j \in 1..Cardinality(S) : i < j => ListedBefore(q[i], q[j])

\* get_snapshots(): the rows of /_cat/snapshots, [] when the request fails
get_snapshots(r) ==
    IF r = "ok"
    THEN LET ids == SortedByEndEpoch(DOMAIN snapshots)
         IN  [k \in 1..Len(ids) |-> [id |-> ids[k], row |-> snapshots[ids[k]]]]
    ELSE <<>>

\* the answers to the requests of _get_searchable_snapshot_age_days
AgeResponses ==
    [list : ReadOutcomes, detail : Answers({"ok", "fail"}), settings : ReadOutcomes]

\* _get_searchable_snapshot_age_days:
\* snapshot_name = searchable_index_name.replace('-snapshot', '')
backing_snapshot_name(searchable_index_name) ==
    Replace(searchable_index_name, SnapshotSuffix)

\* variant: the age of a mount is that of the index itself
get_searchable_snapshot_age_days_Own(searchable_index_name, resp, t) ==
    get_index_age_days(searchable_index_name, resp.settings, t)

\* _get_searchable_snapshot_age_days(searchable_index_name)
get_searchable_snapshot_age_days(searchable_index_name, resp, t) ==
    LET snapshot_name == backing_snapshot_name(searchable_index_name)
        found == resp.list = "ok" /\ snapshot_name \in DOMAIN snapshots
        snapshot_age == IF found
                        THEN snapshot_age_days(snapshots[snapshot_name], resp.detail, t)
                        ELSE UnknownAge
    IN  IF found /\ snapshot_age >= 0 THEN snapshot_age
        ELSE get_index_age_days(searchable_index_name, resp.settings, t)

\* history: what phase 1 saw of the mount `index_name`
Examined(index_name, resp, t, age_days, deleted) ==
    LET snapshot_name == Replace(index_name, SnapshotSuffix)
        found == resp.list = "ok" /\ snapshot_name \in DOMAIN snapshots
    IN  [name |-> index_name, found |-> found,
         snapshot_age |-> IF found
                          THEN snapshot_age_days(snapshots[snapshot_name], resp.detail, t)
                          ELSE UnknownAge,
         index_age |-> get_index_age_days(index_name, resp.settings, t),
         age_days |-> age_days, deleted |-> deleted]

\* the age _snapshot_age_days gives a snapshot of the cluster when its detail
\* query is answered (history: the snapshot's own age)
OwnSnapshotAge(name) ==
    IF name \in DOMAIN snapshots THEN snapshot_age_days(snapshots[name], "ok", now)
    ELSE UnknownAge

-----------------------------------------------------------------------------
(* cleanup_old_data *)

\* variant: phases 1 and 2 comparing with hot_storage_days
IndexExpired_Hot(age_days) == age_days >= Days(hot_storage_days)

\* if age_days >= self.total_retention_days (phases 1 and 2)
IndexExpired(age_days) == age_days >= Days(total_retention_days)

\* variant: phase 3 taking an unknown age for an old one
SnapshotExpired_Unknown(snapshot_age) ==
    /\ ~(snapshot_age >= Days(RidiculousAgeDays))
    /\ (snapshot_age < 0 \/ snapshot_age >= Days(total_retention_days))

\* phase 3: not unknown, not ridiculous, and past retention
SnapshotExpired(snapshot_age) ==
    /\ ~(snapshot_age < 0)
    /\ ~(snapshot_age >= Days(RidiculousAgeDays))
    /\ snapshot_age >= Days(total_retention_days)

\* indices = self.get_indices()
Cleanup_Start ==
    /\ pc = "c_start"
    /\ \E r \in ReadOutcomes :
          scan' = [NoScan EXCEPT !.list = get_indices(r), !.i = 1]
    /\ pc' = "c_phase1"
    /\ UNCHANGED <<cluster, now, config, op, run, history>>

\* phase 1, one index of the list
Cleanup_Phase1 ==
    /\ pc = "c_phase1"
    /\ IF scan.i > Len(scan.list)
       THEN /\ pc' = "c_phase2"
            /\ scan' = [scan EXCEPT !.i = 1, !.examined = NoExamined]
            /\ UNCHANGED <<indices, history>>
       ELSE LET index_name == scan.list[scan.i] IN
            IF /\ EndsWith(index_name, SnapshotSuffix)
               /\ should_manage_index(Replace(index_name, SnapshotSuffix))
            THEN \E resp \in AgeResponses :
                    LET age_days ==
                            get_searchable_snapshot_age_days(index_name, resp, now)
                        seen == Examined(index_name, resp, now, age_days,
                                         IndexExpired(age_days))
                    IN  IF IndexExpired(age_days)
                        THEN \E o \in DeleteIndexOutcomes :
                                /\ indices' = IndicesAfterDelete(index_name, o)
                                /\ Issue("delete_index", index_name, "phase1", age_days)
                                /\ IF Raised(o)
                                   THEN /\ pc' = "raised"
                                        /\ scan' = [scan EXCEPT !.examined = seen]
                                   ELSE /\ pc' = "c_phase1"
                                        /\ scan' = [scan EXCEPT !.i = @ + 1,
                                                                !.examined = seen]
                        ELSE /\ pc' = "c_phase1"
                             /\ scan' = [scan EXCEPT !.i = @ + 1, !.examined = seen]
                             /\ UNCHANGED <<indices, history>>
            ELSE /\ pc' = "c_phase1"
                 /\ scan' = [scan EXCEPT !.i = @ + 1, !.examined = NoExamined]
                 /\ UNCHANGED <<indices, history>>
    /\ UNCHANGED <<snapshots, now, config, op, run>>

\* phase 2, one index of the list: the index itself
Cleanup_Phase2 ==
    /\ pc = "c_phase2"
    /\ IF scan.i > Len(scan.list)
       THEN /\ pc' = "c_phase3_start"
            /\ UNCHANGED <<indices, scan, history>>
       ELSE LET index_name == scan.list[scan.i] IN
            IF /\ should_manage_index(index_name)
               /\ ~EndsWith(index_name, SnapshotSuffix)
            THEN \E settings \in ReadOutcomes :
                    LET age_days == get_index_age_days(index_name, settings, now)
                    IN  IF IndexExpired(age_days)
                        THEN \E o \in DeleteIndexOutcomes :
                                /\ indices' = IndicesAfterDelete(index_name, o)
                                /\ Issue("delete_index", index_name, "phase2", age_days)
                                /\ pc' = IF Raised(o) THEN "raised"
                                         ELSE "c_phase2_snapshot"
                                /\ scan' = [scan EXCEPT !.lookup =
                                               [name |-> index_name,
                                                alias_failed |-> FALSE,
                                                age_unread |->
                                                    AgeUnread(index_name, settings)]]
                        ELSE /\ pc' = "c_phase2"
                             /\ scan' = [scan EXCEPT !.i = @ + 1, !.lookup = NoLookup]
                             /\ UNCHANGED <<indices, history>>
            ELSE /\ pc' = "c_phase2"
                 /\ scan' = [scan EXCEPT !.i = @ + 1, !.lookup = NoLookup]
                 /\ UNCHANGED <<indices, history>>
    /\ UNCHANGED <<snapshots, now, config, op, run>>

\* phase 2: self._delete_snapshot(corresponding_snapshot)
Cleanup_Phase2Snapshot ==
    /\ pc = "c_phase2_snapshot"
    /\ LET corresponding_snapshot ==
               get_corresponding_snapshot_name(scan.list[scan.i])
       IN  \E o \in DeleteSnapshotOutcomes(corresponding_snapshot) :
              /\ snapshots' = SnapshotsAfterDelete(corresponding_snapshot, o)
              /\ Issue("delete_snapshot", corresponding_snapshot, "phase2",
                       OwnSnapshotAge(corresponding_snapshot))
              /\ IF Raised(o)
                 THEN pc' = "raised" /\ scan' = scan
                 ELSE pc' = "c_phase2" /\ scan' = [scan EXCEPT !.i = @ + 1]
    /\ UNCHANGED <<indices, now, config, op, run>>

\* snapshots = self.get_snapshots()
Cleanup_Phase3Start ==
    /\ pc = "c_phase3_start"
    /\ \E r \in ReadOutcomes :
          scan' = [scan EXCEPT !.snaps = get_snapshots(r), !.j = 1]
    /\ pc' = "c_phase3"
    /\ UNCHANGED <<cluster, now, config, op, run, history>>

\* phase 3, one snapshot of the list: its age, and whether it goes
Cleanup_Phase3 ==
    /\ pc = "c_phase3"
    /\ IF scan.j > Len(scan.snaps)
       THEN pc' = "done" /\ scan' = scan
       ELSE LET snapshot == scan.snaps[scan.j] IN
            \E detail \in DetailResponses(snapshot.row) :
               LET snapshot_age == snapshot_age_days(snapshot.row, detail, now)
               IN  IF SnapshotExpired(snapshot_age)
                   THEN /\ pc' = IF EndsWith(snapshot.id, SnapshotSuffix)
                                 THEN "c_phase3_index_exists"
                                 ELSE "c_phase3_delete"
                        /\ scan' = [scan EXCEPT !.age = snapshot_age]
                   ELSE /\ pc' = "c_phase3"
                        /\ scan' = [scan EXCEPT !.j = @ + 1]
    /\ UNCHANGED <<cluster, now, config, op, run, history>>

\* _delete_snapshot_with_cleanup: if self._index_exists(snapshot_name)
Cleanup_Phase3IndexExists ==
    /\ pc = "c_phase3_index_exists"
    /\ \E r \in ReadOutcomes :
          pc' = IF index_exists(scan.snaps[scan.j].id, r)
                THEN "c_phase3_delete_index" ELSE "c_phase3_delete"
    /\ UNCHANGED <<cluster, now, config, op, scan, run, history>>

\* _delete_snapshot_with_cleanup: self._delete_index(snapshot_name)
Cleanup_Phase3DeleteIndex ==
    /\ pc = "c_phase3_delete_index"
    /\ \E o \in DeleteIndexOutcomes :
          /\ indices' = IndicesAfterDelete(scan.snaps[scan.j].id, o)
          /\ Issue("delete_index", scan.snaps[scan.j].id, "phase3", scan.age)
          /\ pc' = IF Raised(o) THEN "raised" ELSE "c_phase3_delete"
    /\ UNCHANGED <<snapshots, now, config, op, scan, run>>

\* _delete_snapshot_with_cleanup: self._delete_snapshot(snapshot_name)
Cleanup_Phase3Delete ==
    /\ pc = "c_phase3_delete"
    /\ LET snapshot_name == scan.snaps[scan.j].id
       IN  \E o \in DeleteSnapshotOutcomes(snapshot_name) :
              /\ snapshots' = SnapshotsAfterDelete(snapshot_name, o)
              /\ Issue("delete_snapshot", snapshot_name, "phase3", scan.age)
              /\ IF Raised(o)
                 THEN pc' = "raised" /\ scan' = scan
                 ELSE pc' = "c_phase3" /\ scan' = [scan EXCEPT !.j = @ + 1]
    /\ UNCHANGED <<indices, now, config, op, run>>

Cleanup ==
    \/ Cleanup_Start
    \/ Cleanup_Phase1
    \/ Cleanup_Phase2
    \/ Cleanup_Phase2Snapshot
    \/ Cleanup_Phase3Start
    \/ Cleanup_Phase3
    \/ Cleanup_Phase3IndexExists
    \/ Cleanup_Phase3DeleteIndex
    \/ Cleanup_Phase3Delete

-----------------------------------------------------------------------------
(* transition_old_indices_to_snapshots *)

\* _is_write_index(index_name): GET <index>/_alias, and False when it fails
is_write_index(index_name, r) ==
    r = "ok" /\ index_name \in DOMAIN indices /\ indices[index_name].write

\* variant: a mounted index may be ready as any other
is_ready_for_snapshot_Mounts(index_name, alias, kind, settings) ==
    IF is_write_index(index_name, alias) THEN FALSE
    ELSE get_index_age_days(index_name, settings, now) >= Days(hot_storage_days)

\* variant: an index as old as hot_storage_days to the second is not yet ready
is_ready_for_snapshot_Older(index_name, alias, kind, settings) ==
    IF is_write_index(index_name, alias) THEN FALSE
    ELSE IF is_searchable_snapshot(index_name, kind) THEN FALSE
    ELSE get_index_age_days(index_name, settings, now) > Days(hot_storage_days)

\* _is_ready_for_snapshot(index_name), given the answers to its three reads
is_ready_for_snapshot(index_name, alias, kind, settings) ==
    IF is_write_index(index_name, alias) THEN FALSE
    ELSE IF is_searchable_snapshot(index_name, kind) THEN FALSE
    ELSE get_index_age_days(index_name, settings, now) >= Days(hot_storage_days)

\* the early return, and for index_info in self.get_indices()
Transition_Start ==
    /\ pc = "t_start"
    /\ IF hot_storage_days >= total_retention_days
       THEN pc' = "done" /\ scan' = scan
       ELSE /\ pc' = "t_scan"
            /\ \E r \in ReadOutcomes :
                  scan' = [NoScan EXCEPT !.list = get_indices(r), !.i = 1]
    /\ UNCHANGED <<cluster, now, config, op, run, history>>

\* one index of the list: the workflow starts when it is managed and ready
\* (history: the invocation is recorded with what the index was at that time)
Transition_Scan ==
    /\ pc = "t_scan"
    /\ IF scan.i > Len(scan.list)
       THEN pc' = "done" /\ UNCHANGED <<scan, run, history>>
       ELSE LET index_name == scan.list[scan.i] IN
            IF ~should_manage_index(index_name)
            THEN /\ pc' = "t_scan"
                 /\ scan' = [scan EXCEPT !.i = @ + 1]
                 /\ UNCHANGED <<run, history>>
            ELSE \E alias \in ReadOutcomes, kind \in ReadOutcomes,
                    settings \in ReadOutcomes :
                    IF is_ready_for_snapshot(index_name, alias, kind, settings)
                    THEN /\ pc' = "w_attempt"
                         /\ run' = NewRun(index_name)
                         /\ Issue("transition", index_name, "scan",
                                  get_index_age_days(index_name, settings, now))
                         /\ scan' = [scan EXCEPT !.lookup =
                                        [name |-> index_name,
                                         alias_failed |-> alias # "ok",
                                         age_unread |-> AgeUnread(index_name, settings)]]
                    ELSE /\ pc' = "t_scan"
                         /\ scan' = [scan EXCEPT !.i = @ + 1]
                         /\ UNCHANGED <<run, history>>
    /\ UNCHANGED <<cluster, now, config, op>>

\* the workflow returned: the next index, unless it raised
Transition_Next ==
    /\ pc = "w_return"
    /\ op = "transition"
    /\ IF run.result = "raised"
       THEN pc' = "raised" /\ scan' = scan
       ELSE /\ pc' = "t_scan"
            /\ scan' = [scan EXCEPT !.i = @ + 1, !.failed = @ \/ run.failed_at # {},
                                    !.lookup = NoLookup]
    /\ UNCHANGED <<cluster, now, config, op, run, history>>

Transition ==
    \/ Transition_Start
    \/ Transition_Scan
    \/ Transition_Next
    \/ Workflow

-----------------------------------------------------------------------------
(* restore_missing_searchable_snapshots *)

Range(q) == { q[k] : k \in 1..Len(q) }

DataStreamPrefix == <<".ds">>

\* the loop over snapshot_indices that sets should_restore
should_restore(snapshot_indices, existing_indices) ==
    \E index_name \in snapshot_indices :
        /\ ~StartsWithAny(index_name, {DataStreamPrefix})
        /\ should_manage_index(index_name)
        /\ index_name \notin existing_indices
        /\ SearchableName(index_name) \notin existing_indices

\* GET /_snapshot/data/<snapshot_name>: answered with the snapshot, or not
HasDetails(snapshot_name, r) == r = "ok" /\ snapshot_name \in DOMAIN snapshots

\* existing_indices = {...self.get_indices()}; for snapshot in self.get_snapshots()
Restore_Start ==
    /\ pc = "r_start"
    /\ \E r1 \in ReadOutcomes, r2 \in ReadOutcomes :
          scan' = [NoScan EXCEPT !.existing = Range(get_indices(r1)),
                                 !.snaps = get_snapshots(r2), !.j = 1]
    /\ pc' = "r_scan"
    /\ UNCHANGED <<cluster, now, config, op, run, history>>

\* one snapshot of the list: state, age, details, should_restore
Restore_Scan ==
    /\ pc = "r_scan"
    /\ IF scan.j > Len(scan.snaps)
       THEN pc' = "done" /\ scan' = scan
       ELSE LET snapshot == scan.snaps[scan.j]
                skip == /\ pc' = "r_scan"
                        /\ scan' = [scan EXCEPT !.j = @ + 1]
            IN  IF snapshot.row.state # "SUCCESS" THEN skip
                ELSE \E detail \in DetailResponses(snapshot.row), r \in ReadOutcomes :
                        LET snapshot_age == snapshot_age_days(snapshot.row, detail, now)
                        IN  IF snapshot_age < 0 THEN skip
                            ELSE IF snapshot_age < Days(hot_storage_days) THEN skip
                            ELSE IF ~HasDetails(snapshot.id, r) THEN skip
                            ELSE IF should_restore(snapshots[snapshot.id].indices,
                                                   scan.existing)
                            THEN /\ pc' = "r_restore"
                                 /\ scan' = [scan EXCEPT !.age = snapshot_age]
                            ELSE skip
    /\ UNCHANGED <<cluster, now, config, op, run, history>>

\* _restore_as_searchable: the details of the snapshot, and the indices in it
Restore_Details ==
    /\ pc = "r_restore"
    /\ \E r \in ReadOutcomes :
          IF HasDetails(scan.snaps[scan.j].id, r)
          THEN /\ pc' = "r_mount"
               /\ scan' = [scan EXCEPT
                             !.todo = ListOf(snapshots[scan.snaps[scan.j].id].indices)]
          ELSE /\ pc' = "r_scan"
               /\ scan' = [scan EXCEPT !.j = @ + 1]
    /\ UNCHANGED <<cluster, now, config, op, run, history>>

\* _restore_as_searchable: one index of the snapshot
Restore_Mount ==
    /\ pc = "r_mount"
    /\ IF scan.todo = <<>>
       THEN /\ pc' = "r_scan"
            /\ scan' = [scan EXCEPT !.j = @ + 1]
            /\ UNCHANGED <<indices, history>>
       ELSE LET index_name == Head(scan.todo)
                snapshot_name == scan.snaps[scan.j].id
            IN  IF \/ StartsWithAny(index_name, {DataStreamPrefix})
                   \/ SearchableName(index_name) \in scan.existing
                THEN /\ pc' = "r_mount"
                     /\ scan' = [scan EXCEPT !.todo = Tail(@)]
                     /\ UNCHANGED <<indices, history>>
                ELSE \E o \in MountOutcomes(snapshot_name, index_name) :
                        /\ indices' = IndicesAfterMount(index_name, o)
                        /\ Issue("mount", index_name, "restore", scan.age)
                        /\ IF Raised(o)
                           THEN /\ pc' = "r_scan"
                                /\ scan' = [scan EXCEPT
                                              !.j = @ + 1, !.todo = <<>>,
                                              !.sent = Append(@, SearchableName(index_name))]
                           ELSE /\ pc' = "r_mount"
                                /\ scan' = [scan EXCEPT
                                              !.todo = Tail(@),
                                              !.sent = Append(@, SearchableName(index_name))]
    /\ UNCHANGED <<snapshots, now, config, op, run>>

Restore ==
    \/ Restore_Start
    \/ Restore_Scan
    \/ Restore_Details
    \/ Restore_Mount

-----------------------------------------------------------------------------
(* remove_searchable_snapshots *)

\* for index_info in self.get_indices()
Remove_Start ==
    /\ pc = "x_start"
    /\ \E r \in ReadOutcomes :
          scan' = [NoScan EXCEPT !.list = get_indices(r), !.i = 1]
    /\ pc' = "x_scan"
    /\ UNCHANGED <<cluster, now, config, op, run, history>>

\* one index of the list
Remove_Scan ==
    /\ pc = "x_scan"
    /\ IF scan.i > Len(scan.list)
       THEN pc' = "done" /\ UNCHANGED <<indices, scan, history>>
       ELSE LET index_name == scan.list[scan.i] IN
            \E kind \in ReadOutcomes :
               IF /\ should_manage_index(index_name)
                  /\ is_searchable_snapshot(index_name, kind)
               THEN \E o \in DeleteIndexOutcomes :
                       /\ indices' = IndicesAfterDelete(index_name, o)
                       /\ Issue("delete_index", index_name, "remove", NoAge)
                       /\ IF Raised(o)
                          THEN pc' = "raised" /\ scan' = scan
                          ELSE pc' = "x_scan" /\ scan' = [scan EXCEPT !.i = @ + 1]
               ELSE /\ pc' = "x_scan"
                    /\ scan' = [scan EXCEPT !.i = @ + 1]
                    /\ UNCHANGED <<indices, history>>
    /\ UNCHANGED <<snapshots, now, config, op, run>>

Remove ==
    \/ Remove_Start
    \/ Remove_Scan

-----------------------------------------------------------------------------
(* check_and_rollover_by_size *)

\* the indices of the alias that are its write index
WriteIndices(alias_name) ==
    { n \in DOMAIN indices : AliasName(n) = alias_name /\ indices[n].write }

\* _get_write_aliases(): the aliases named *-write that have a write index; []
\* when GET /_alias fails
get_write_aliases(r) ==
    IF r = "ok"
    THEN { AliasName(n) : n \in { m \in DOMAIN indices :
                                     /\ EndsWith(AliasName(m), WriteSuffix)
                                     /\ indices[m].write } }
    ELSE {}

\* list(write_aliases): a set has no order of its own
Orderings(S) ==
    { q \in [1..Cardinality(S) -> S] :
        \A i, j \in 1..Cardinality(S) : i # j => q[i] # q[j] }

\* _get_write_index(alias_name): the write index, or None ({}) when there is
\* none or GET /_alias/<alias> fails
get_write_index(alias_name, r) ==
    IF r = "ok" THEN WriteIndices(alias_name) ELSE {}

\* POST /<alias>/_rollover: 200 with rolled_over true ("ok") or false
\* ("not_needed"), an error status, or an exception
RolloverOutcomes(alias_name) ==
    IF WriteIndices(alias_name) # {}
    THEN Answers({"ok", "not_needed", "err", "exc_done", "exc_lost"})
    ELSE Answers({"err", "exc_lost"})
IndicesAfterRollover(alias_name, o) ==
    IF Done(o)
    THEN LET old == CHOOSE n \in WriteIndices(alias_name) : TRUE
         IN  With([indices EXCEPT ![old].write = FALSE], Successor(old),
                  [created |-> Millis(now, 0), store |-> "standard", write |-> TRUE])
    ELSE indices

\* for alias_name in self._get_write_aliases()
Rollover_Start ==
    /\ pc = "g_start"
    /\ \E r \in ReadOutcomes :
          \E q \in Orderings(get_write_aliases(r)) :
             scan' = [NoScan EXCEPT !.list = q, !.i = 1]
    /\ pc' = "g_alias"
    /\ UNCHANGED <<cluster, now, config, op, run, history>>

\* write_index = self._get_write_index(alias_name); if not write_index: continue
Rollover_Alias ==
    /\ pc = "g_alias"
    /\ IF scan.i > Len(scan.list)
       THEN pc' = "done" /\ scan' = scan
       ELSE \E r \in ReadOutcomes :
               IF get_write_index(scan.list[scan.i], r) = {}
               THEN /\ pc' = "g_alias"
                    /\ scan' = [scan EXCEPT !.i = @ + 1,
                                            !.unresolved = @ \cup {scan.list[scan.i]}]
               ELSE pc' = "g_rollover" /\ scan' = scan
    /\ UNCHANGED <<cluster, now, config, op, run, history>>

\* result = self._rollover_alias(alias_name)
Rollover_Request ==
    /\ pc = "g_rollover"
    /\ \E o \in RolloverOutcomes(scan.list[scan.i]) :
          /\ indices' = IndicesAfterRollover(scan.list[scan.i], o)
          /\ Issue("rollover", scan.list[scan.i], "rollover", NoAge)
          /\ pc' = IF Raised(o) THEN "raised" ELSE "g_alias"
          /\ scan' = [scan EXCEPT !.i = IF Raised(o) THEN @ ELSE @ + 1,
                                  !.sent = Append(@, scan.list[scan.i])]
    /\ UNCHANGED <<snapshots, now, config, op, run>>

Rollover ==
    \/ Rollover_Start
    \/ Rollover_Alias
    \/ Rollover_Request

-----------------------------------------------------------------------------
(* Cluster states the operations start from *)

\* 2027-01-15 08:00:00 UTC
Now0 == 20833 * SecondsPerDay + 28800

StandardIndex(created, write) == [created |-> created, store |-> "standard", write |-> write]

\* a snapshot of `index_name` that ended in `state` `age` seconds ago
OldSnapshot(index_name, state, age) ==
    IF state = "IN_PROGRESS" THEN StartedSnapshot(index_name, Now0 - age)
    ELSE EndedSnapshot(StartedSnapshot(index_name, Now0 - age), state, Now0 - age)


\* a mount needs a snapshot that ended well
Consistent(ix, sn) ==
    \A n \in DOMAIN ix :
        ix[n].store = "remote_snapshot" =>
            \E m \in DOMAIN sn :
                n = SearchableName(m) /\ sn[m].state \in {"SUCCESS", "PARTIAL"}

\* one managed index, three days old; an index of the searchable name may exist
\* already, mounted or not; a snapshot of its name may exist already
TransitionClusters ==
    { c \in
        { [ix |-> ix, sn |-> sn] :
            ix \in { (Log1 :> StandardIndex(Millis(Now0 - Days(3), 0), FALSE)) @@ extra :
                       extra \in { <<>>,
                                   SearchableName(Log1) :> MountedIndex(Now0 - Days(1)),
                                   SearchableName(Log1) :>
                                       StandardIndex(Millis(Now0 - Days(1), 0), FALSE) } },
            sn \in { <<>> } \cup
                   { Log1 :> OldSnapshot(Log1, state, Days(1)) :
                       state \in {"SUCCESS", "PARTIAL", "FAILED", "IN_PROGRESS"} } } :
        Consistent(c.ix, c.sn) }

InitTransition ==
    /\ \E c \in TransitionClusters : indices = c.ix /\ snapshots = c.sn
    /\ now = Now0
    /\ hot_storage_days = 2
    /\ total_retention_days = 4
    /\ op = "workflow"
    /\ pc = "w_attempt"
    /\ scan = NoScan
    /\ run = NewRun(Log1)
    /\ log = {}
    /\ last = NoRequest
    /\ first = NoFirst

\* one run of _snapshot_and_replace_index
SpecTransition == InitTransition /\ [][Workflow]_vars

\* the rows a snapshot of `index_name` can have in the catalog: ended one or five
\* days ago; no usable time anywhere; an end_epoch of one second; times only in
\* the detail answer
CatalogRows(index_name) ==
    LET old == OldSnapshot(index_name, "SUCCESS", Days(5))
    IN  { OldSnapshot(index_name, "SUCCESS", Days(1)),
          old,
          [old EXCEPT !.end_epoch = Secs(0), !.start_epoch = Secs(0),
                      !.end_time_in_millis = Millis(0, 0),
                      !.start_time_in_millis = Millis(0, 0)],
          [old EXCEPT !.end_epoch = Secs(1)],
          [old EXCEPT !.end_epoch = NotANumber, !.start_epoch = Absent] }

\* any of the functions { <<>> , name :> v } for v in values
Maybe(name, values) == { <<>> } \cup { name :> v : v \in values }

\* a managed index (three or five days old, or with a creation date of 0; the
\* one of five days may be the write index of its alias), its mount, an
\* unmanaged index with the name of a mount, and snapshots of these names
CleanupClusters ==
    { c \in
        { [ix |-> a @@ b @@ d, sn |-> e @@ f] :
            a \in Maybe(Log1, { StandardIndex(Millis(Now0 - Days(3), 0), FALSE),
                                StandardIndex(Millis(Now0 - Days(5), 0), FALSE),
                                StandardIndex(Millis(Now0 - Days(5), 0), TRUE),
                                StandardIndex(Millis(0, 0), FALSE) }),
            b \in Maybe(SearchableName(Log1), { MountedIndex(Now0 - Days(1)) }),
            d \in Maybe(SearchableName(Sys1),
                        { StandardIndex(Millis(Now0 - Days(5), 0), FALSE) }),
            e \in Maybe(Log1, CatalogRows(Log1)),
            f \in Maybe(SearchableName(Sys1),
                        { OldSnapshot(Sys1, "SUCCESS", Days(5)) }) } :
        Consistent(c.ix, c.sn) }

InitCleanup ==
    /\ \E c \in CleanupClusters : indices = c.ix /\ snapshots = c.sn
    /\ now = Now0
    /\ hot_storage_days = 2
    /\ total_retention_days = 4
    /\ op = "cleanup"
    /\ pc = "c_start"
    /\ scan = NoScan
    /\ run = NewRun(<<>>)
    /\ log = {}
    /\ last = NoRequest
    /\ first = NoFirst

\* one run of cleanup_old_data
SpecCleanup == InitCleanup /\ [][Cleanup]_vars

\* a snapshot somebody took of two managed and an unmanaged index, three days ago
FullSnapshot ==
    [OldSnapshot(Log1, "SUCCESS", Days(3)) EXCEPT !.indices = {Log1, Log2, Sys1}]

\* an unmanaged index
Others == Sys1 :> StandardIndex(Millis(Now0 - Days(5), 0), FALSE)

\* the managed index, three days old and maybe the write index of an alias, or one
\* day old; maybe its mount and its snapshot of one day ago; an unmanaged index
ScanClusters ==
    { c \in
        { [ix |-> a @@ b @@ Others, sn |-> e] :
            a \in { Log1 :> StandardIndex(Millis(Now0 - Days(3), 0), FALSE),
                    Log1 :> StandardIndex(Millis(Now0 - Days(3), 0), TRUE),
                    Log1 :> StandardIndex(Millis(Now0 - Days(1), 0), FALSE) },
            b \in Maybe(SearchableName(Log1), { MountedIndex(Now0 - Days(1)) }),
            e \in Maybe(Log1, { OldSnapshot(Log1, "SUCCESS", Days(1)) }) } :
        Consistent(c.ix, c.sn) }

\* maybe the managed index and its mount, and a second managed index; snapshots
\* of the first of five days, three or one, ended well or not; a snapshot of
\* several indices; an unmanaged index
RestoreClusters ==
    { c \in
        { [ix |-> a @@ b @@ d @@ Others, sn |-> e @@ f] :
            a \in Maybe(Log1, { StandardIndex(Millis(Now0 - Days(3), 0), FALSE) }),
            b \in Maybe(SearchableName(Log1), { MountedIndex(Now0 - Days(1)) }),
            d \in Maybe(Log2, { StandardIndex(Millis(Now0 - Days(1), 0), FALSE) }),
            e \in Maybe(Log1, { OldSnapshot(Log1, "SUCCESS", Days(5)),
                                OldSnapshot(Log1, "SUCCESS", Days(3)),
                                OldSnapshot(Log1, "SUCCESS", Days(1)),
                                OldSnapshot(Log1, "FAILED", Days(3)) }),
            f \in Maybe(Full1, { FullSnapshot }) } :
        Consistent(c.ix, c.sn) }

\* two series, each with its write index or none, and an index that is the
\* write index of an alias with another kind of name
RolloverClusters ==
    { [ix |-> a @@ b @@ d @@ e, sn |-> <<>>] :
        a \in { Log1 :> StandardIndex(Millis(Now0 - Days(3), 0), FALSE) },
        b \in Maybe(Log2, { StandardIndex(Millis(Now0 - Days(1), 0), w) :
                              w \in BOOLEAN }),
        d \in Maybe(Alert1, { StandardIndex(Millis(Now0 - Days(1), 0), w) :
                                w \in BOOLEAN }),
        e \in { Sys1 :> StandardIndex(Millis(Now0 - Days(5), 0), TRUE) } }

\* the top-level operations, where each starts and from which clusters
Operations ==
    { [op |-> "transition", pc |-> "t_start", clusters |-> ScanClusters],
      [op |-> "cleanup", pc |-> "c_start", clusters |-> CleanupClusters],
      [op |-> "restore", pc |-> "r_start", clusters |-> RestoreClusters],
      [op |-> "remove", pc |-> "x_start", clusters |-> RestoreClusters],
      [op |-> "rollover", pc |-> "g_start", clusters |-> RolloverClusters] }

\* hotStorageDays and totalRetentionDays: two and four days, four and four, or
\* none of either
Configurations ==
    { [hot |-> 2, total |-> 4], [hot |-> 4, total |-> 4], [hot |-> 0, total |-> 0] }

Init ==
    /\ \E o \in Operations :
          /\ op = o.op
          /\ pc = o.pc
          /\ \E c \in o.clusters : indices = c.ix /\ snapshots = c.sn
    /\ \E g \in Configurations :
          hot_storage_days = g.hot /\ total_retention_days = g.total
    /\ now = Now0
    /\ scan = NoScan
    /\ run = NewRun(<<>>)
    /\ log = {}
    /\ last = NoRequest
    /\ first = NoFirst

Next ==
    \/ Transition
    \/ Cleanup
    \/ Restore
    \/ Remove
    \/ Rollover

\* one run of one of the top-level operations
Spec == Init /\ [][Next]_vars

\* the managed index with an index of its searchable name that is no mount, and
\* a snapshot of it in any state
ReplaceClusters ==
    { [ix |-> c.ix @@ Others, sn |-> c.sn] : c \in TransitionClusters }

\* the operations that are run twice, and the clusters of the first run
Repeated ==
    { [op |-> "transition", pc |-> "t_start",
       clusters |-> ScanClusters \cup ReplaceClusters],
      [op |-> "cleanup", pc |-> "c_start", clusters |-> CleanupClusters],
      [op |-> "restore", pc |-> "r_start", clusters |-> RestoreClusters] }

\* no hot storage at all, two days of four, or four of four
RepeatedConfigurations == Configurations \cup { [hot |-> 0, total |-> 4] }

InitTwice ==
    /\ \E o \in Repeated :
          /\ op = o.op
          /\ pc = o.pc
          /\ \E c \in o.clusters : indices = c.ix /\ snapshots = c.sn
    /\ \E g \in RepeatedConfigurations :
          hot_storage_days = g.hot /\ total_retention_days = g.total
    /\ now = Now0
    /\ scan = NoScan
    /\ run = NewRun(<<>>)
    /\ log = {}
    /\ last = NoRequest
    /\ first = [NoFirst EXCEPT !.pass = 1,
                               !.before = <<DOMAIN indices, DOMAIN snapshots>>]

\* the first run returned: the same operation is run again
Again ==
    /\ pc = "done"
    /\ first.pass = 1
    /\ first' = [first EXCEPT !.pass = 2,
                              !.between = <<DOMAIN indices, DOMAIN snapshots>>,
                              !.failed = scan.failed]
    /\ pc' = (CHOOSE o \in Repeated : o.op = op).pc
    /\ scan' = NoScan
    /\ run' = NewRun(<<>>)
    /\ log' = {}
    /\ last' = NoRequest
    /\ UNCHANGED <<cluster, now, config, op>>

NextTwice ==
    \/ Transition
    \/ Cleanup
    \/ Restore
    \/ Again

\* one of the operations, run twice in a row with nothing in between
SpecTwice == InitTwice /\ [][NextTwice]_vars

-----------------------------------------------------------------------------
(* ilm(): the three operations of one job, one after the other *)

\* the mount of the managed index, made a day ago from a snapshot of five days,
\* of three, or of five with an end_epoch of one second; or the index itself,
\* five days old and with no snapshot yet, beside an unmanaged index with the
\* name of a mount and an old snapshot of that name; an unmanaged index
JobClusters ==
    { [ix |-> (SearchableName(Log1) :> MountedIndex(Now0 - Days(1))) @@ Others,
       sn |-> Log1 :> row] :
        row \in { OldSnapshot(Log1, "SUCCESS", Days(5)),
                  OldSnapshot(Log1, "SUCCESS", Days(3)),
                  [OldSnapshot(Log1, "SUCCESS", Days(5)) EXCEPT !.end_epoch = Secs(1)] } }
    \cup
    { [ix |-> (Log1 :> StandardIndex(Millis(Now0 - Days(5), 0), FALSE)) @@
              (SearchableName(Sys1) :> StandardIndex(Millis(Now0 - Days(5), 0), FALSE))
              @@ Others,
       sn |-> SearchableName(Sys1) :> OldSnapshot(Sys1, "SUCCESS", Days(5))] }

InitJob ==
    /\ \E c \in JobClusters : indices = c.ix /\ snapshots = c.sn
    /\ now = Now0
    /\ hot_storage_days = 2
    /\ total_retention_days = 4
    /\ op = "transition"
    /\ pc = "t_start"
    /\ scan = NoScan
    /\ run = NewRun(<<>>)
    /\ log = {}
    /\ last = NoRequest
    /\ first = NoFirst

\* ilm_instance.cleanup_old_data() after the transition has returned, and
\* ilm_instance.restore_missing_searchable_snapshots() after the cleanup has;
\* the history of the requests is kept from the cleanup on
Ilm_Continue ==
    /\ pc = "done"
    /\ op \in {"transition", "cleanup"}
    /\ IF op = "transition"
       THEN /\ op' = "cleanup"
            /\ pc' = "c_start"
            /\ log' = {}
            /\ last' = NoRequest
            /\ first' = first
       ELSE /\ op' = "restore"
            /\ pc' = "r_start"
            /\ UNCHANGED history
    /\ scan' = NoScan
    /\ run' = NewRun(<<>>)
    /\ UNCHANGED <<cluster, now, config>>

NextJob ==
    \/ Transition
    \/ Cleanup
    \/ Restore
    \/ Ilm_Continue

\* one run of the ILM job
SpecJob == InitJob /\ [][NextJob]_vars

-----------------------------------------------------------------------------
(* Single calls of the helper functions: pc names the function that is called, *)
(* the cluster and the configuration hold its inputs, run.index_name is its    *)
(* argument; the call leaves in `run` what its reads answered and its result.  *)

Answer(fn, reads, result) ==
    [index_name |-> run.index_name, fn |-> fn, reads |-> reads, result |-> result]

\* the variables a call leaves alone
CallUnchanged == UNCHANGED <<cluster, now, config, op, scan, history>>

\* self._get_index_age_days(index_name)
Call_get_index_age_days ==
    /\ pc = "call_get_index_age_days"
    /\ \E settings \in ReadOutcomes :
          run' = Answer("get_index_age_days", [settings |-> settings],
                        get_index_age_days(run.index_name, settings, now))
    /\ pc' = "returned"
    /\ CallUnchanged

\* self._snapshot_age_days(snap), snap being a row of get_snapshots()
Call_snapshot_age_days ==
    /\ pc = "call_snapshot_age_days"
    /\ \E snap \in Range(get_snapshots("ok")) :
          \E detail \in DetailResponses(snap.row) :
             run' = Answer("snapshot_age_days",
                           [id |-> snap.id, asked |-> NeedsDetail(snap.row),
                            detail |-> detail],
                           snapshot_age_days(snap.row, detail, now))
    /\ pc' = "returned"
    /\ CallUnchanged

\* creation dates of an index: three days ago, two days ago to the second, a
\* millisecond later, now, in ten days, 0, and none
CreationDates ==
    { Millis(Now0 - Days(3), 0), Millis(Now0 - Days(2), 0), Millis(Now0 - Days(2), 1),
      Millis(Now0, 0), Millis(Now0 + Days(10), 0), Millis(0, 0), MissingMillis }

\* a field of the catalog under one of its two spellings, or under none
Spelled(values) ==
    { [s |-> v, c |-> Absent] : v \in values } \cup
    { [s |-> Absent, c |-> v] : v \in values \ {Absent} }

\* the rows of the catalog: each time field absent, not a number, 0 or a time;
\* each time of the detail answer missing, 0 or a time; the four times differ
SnapshotRows ==
    { [state |-> "SUCCESS", indices |-> {Log1},
       end_epoch |-> e.s, endEpoch |-> e.c,
       start_epoch |-> b.s, startEpoch |-> b.c,
       end_time_in_millis |-> em, start_time_in_millis |-> bm] :
        e \in Spelled({Absent, NotANumber, Secs(0), Secs(Now0 - Days(1))}),
        b \in Spelled({Absent, NotANumber, Secs(0), Secs(Now0 - Days(2))}),
        em \in {MissingMillis, Millis(0, 0), Millis(Now0 - Days(3), 0)},
        bm \in {MissingMillis, Millis(0, 0), Millis(Now0 - Days(5), 0)} }

\* self._should_manage_index(index_name)
Call_should_manage_index ==
    /\ pc = "call_should_manage_index"
    /\ run' = Answer("should_manage_index", <<>>, should_manage_index(run.index_name))
    /\ pc' = "returned"
    /\ CallUnchanged

\* self._is_ready_for_snapshot(index_name); reads: what its three helpers gave
Call_is_ready_for_snapshot ==
    /\ pc = "call_is_ready_for_snapshot"
    /\ \E alias \in ReadOutcomes, kind \in ReadOutcomes, settings \in ReadOutcomes :
          run' = Answer("is_ready_for_snapshot",
                        [is_write_index |-> is_write_index(run.index_name, alias),
                         is_searchable_snapshot |->
                             is_searchable_snapshot(run.index_name, kind),
                         age_days |-> get_index_age_days(run.index_name, settings, now)],
                        is_ready_for_snapshot(run.index_name, alias, kind, settings))
    /\ pc' = "returned"
    /\ CallUnchanged

\* variant: _validate_configuration without the test of rollover_age_days
validate_configuration_AnyAge(hot, total, size_gb, age_days, patterns) ==
    IF hot < 0 THEN "hot_storage_days"
    ELSE IF total < 0 THEN "total_retention_days"
    ELSE IF hot > total THEN "hot_storage_days > total_retention_days"
    ELSE IF size_gb <= 0 THEN "rollover_size_gb"
    ELSE IF patterns = {} THEN "managed_index_patterns"
    ELSE "ok"

\* _validate_configuration: "ok", or the setting the ValueError is about
validate_configuration(hot, total, rollover_size_gb, rollover_age_days, patterns) ==
    IF hot < 0 THEN "hot_storage_days"
    ELSE IF total < 0 THEN "total_retention_days"
    ELSE IF hot > total THEN "hot_storage_days > total_retention_days"
    ELSE IF rollover_size_gb <= 0 THEN "rollover_size_gb"
    ELSE IF rollover_age_days <= 0 THEN "rollover_age_days"
    ELSE IF patterns = {} THEN "managed_index_patterns"
    ELSE "ok"

\* Ilm(settings): run holds the settings that are not variables of the model
Call_validate_configuration ==
    /\ pc = "call_validate_configuration"
    /\ run' = Answer("validate_configuration", run.settings,
                     validate_configuration(hot_storage_days, total_retention_days,
                                            run.settings.rollover_size_gb,
                                            run.settings.rollover_age_days,
                                            run.settings.managed_index_patterns))
    /\ pc' = "returned"
    /\ CallUnchanged

\* what a status request may answer: no state, the states of a snapshot, no
\* "state" in the answer (read as "UNKNOWN"), and a state the code does not name
StatusResponses ==
    {"error_status", "no_snapshots", "exception", "SUCCESS", "PARTIAL", "FAILED",
     "IN_PROGRESS", "STARTED", "INIT", "UNKNOWN", "ABORTED"}

\* the sequences of n elements of S
SeqsOf(S, n) == [1..n -> S]

\* self._wait_for_snapshot_completion(snapshot_name, max_wait_minutes)
Call_wait_for_snapshot_completion ==
    /\ pc = "call_wait_for_snapshot_completion"
    /\ \E responses \in SeqsOf(StatusResponses, max_polls(run.max_wait_minutes)) :
          LET call == wait_for_snapshot_completion(responses, run.max_wait_minutes,
                                                   0, <<>>)
          IN  run' = Answer("wait_for_snapshot_completion",
                            [max_wait_minutes |-> run.max_wait_minutes,
                             polled |-> call.polled, slept |-> call.slept],
                            call.result)
    /\ pc' = "returned"
    /\ CallUnchanged

\* what a request may give: an exception, or an answer with a status
Raises == [raised |-> TRUE, status_code |-> 0]
Status(status_code) == [raised |-> FALSE, status_code |-> status_code]
Responses == {Raises} \cup { Status(c) : c \in {200, 201, 400, 404, 500} }

\* self._create_snapshot(index_name): reads holds the body of the PUT, what it
\* answered, and the answers and sleeps of the polling, if there was one
Call_create_snapshot ==
    /\ pc = "call_create_snapshot"
    /\ \E response \in Responses, responses \in SeqsOf(StatusResponses, MaxPolls) :
          LET body == [indices |-> <<run.index_name>>, partial |-> FALSE]
              polls == ~response.raised /\ create_snapshot_polls(response.status_code)
              call == wait_for_snapshot_completion(responses, MaxWaitMinutes, 0, <<>>)
          IN  run' = Answer("create_snapshot",
                            [body |-> body, response |-> response,
                             polled |-> IF polls THEN call.polled ELSE <<>>,
                             slept |-> IF polls THEN call.slept ELSE <<>>,
                             completion |-> IF polls THEN Bool(call.result)
                                            ELSE "none"],
                            IF response.raised THEN "raised"
                            ELSE IF polls THEN Bool(call.result)
                            ELSE "False")
    /\ pc' = "returned"
    /\ CallUnchanged

\* what GET /_snapshot/data/<name> may give: an exception, an error status, and
\* a 200 whose body has no "snapshots", no snapshot, a snapshot without "state",
\* or a snapshot in some state with or without failures
SnapshotStates ==
    {"SUCCESS", "PARTIAL", "FAILED", "IN_PROGRESS", "STARTED", "INIT", "ABORTED",
     "INCOMPATIBLE"}
SnapshotInfos ==
    { [state |-> st, failures |-> f] : st \in SnapshotStates, f \in {<<>>, <<"shard">>} }
    \cup { [failures |-> <<>>] }
Bodies ==
    { [error |-> "x"], [snapshots |-> <<>>] } \cup
    { [snapshots |-> <<info>>] : info \in SnapshotInfos }
HealthResponses ==
    { [raised |-> TRUE, status_code |-> 0, body |-> [error |-> "x"]] } \cup
    { [raised |-> FALSE, status_code |-> c, body |-> [error |-> "x"]] : c \in {404, 500} }
    \cup { [raised |-> FALSE, status_code |-> 200, body |-> b] : b \in Bodies }
    \cup { [raised |-> FALSE, status_code |-> 500, body |-> b] : b \in Bodies }

\* self._validate_snapshot_health(snapshot_name)
Call_validate_snapshot_health ==
    /\ pc = "call_validate_snapshot_health"
    /\ \E response \in HealthResponses :
          run' = Answer("validate_snapshot_health", [response |-> response],
                        validate_snapshot_health(response))
    /\ pc' = "returned"
    /\ CallUnchanged

\* self._get_corresponding_snapshot_name(index_name); reads: the name phase 1
\* of the cleanup looks up for the same index
Call_get_corresponding_snapshot_name ==
    /\ pc = "call_get_corresponding_snapshot_name"
    /\ run' = Answer("get_corresponding_snapshot_name",
                     [backing |-> backing_snapshot_name(run.index_name)],
                     get_corresponding_snapshot_name(run.index_name))
    /\ pc' = "returned"
    /\ CallUnchanged

Calls ==
    \/ Call_get_corresponding_snapshot_name
    \/ Call_create_snapshot
    \/ Call_validate_snapshot_health
    \/ Call_get_index_age_days
    \/ Call_snapshot_age_days
    \/ Call_should_manage_index
    \/ Call_is_ready_for_snapshot
    \/ Call_validate_configuration
    \/ Call_wait_for_snapshot_completion

\* names: managed, unmanaged, with "-write" at the end or inside, a pattern
\* inside, a pattern alone, the empty name
SampleNames ==
    { Log1, <<"log", "-write">>, <<"alert", "-1">>, <<"alert", "-1", "-write">>,
      Sys1, <<"sys", "log">>, <<"sys", "-write">>, <<"log">>, <<"-write">>, <<>>,
      SearchableName(Log1), <<"log", "-write", "-1">> }

\* names with "-snapshot" at the end, inside, at both places and nowhere
DerivedNames ==
    LET inside == { <<"log", SnapshotSuffix, "-1">>, <<SnapshotSuffix, "log", "-1">>,
                    <<"log", "-1", SnapshotSuffix>>, <<SnapshotSuffix>> }
        names == SampleNames \cup inside
    IN  names \cup { SearchableName(n) : n \in names }

\* the configurations a constructor may be given
DayCounts == {-1, 0, 2, 4}
OtherSettings ==
    [rollover_size_gb : {-1, 0, 50}, rollover_age_days : {-1, 0, 30},
     managed_index_patterns : { {}, managed_index_patterns }]

\* the inputs of each function: where the call starts, the cluster, the
\* configuration and the argument
CallInput(fn, ix, sn, hot, total, r) ==
    [pc |-> fn, ix |-> ix, sn |-> sn, hot |-> hot, total |-> total, run |-> r]

CallInputs ==
    { CallInput("call_get_corresponding_snapshot_name", <<>>, <<>>, 2, 4, NewRun(n)) :
        n \in DerivedNames }
    \cup
    { CallInput("call_get_index_age_days", ix, <<>>, 2, 4, NewRun(Log1)) :
        ix \in Maybe(Log1, { StandardIndex(t, FALSE) : t \in CreationDates }) }
    \cup
    { CallInput("call_snapshot_age_days", <<>>, Log1 :> row, 2, 4, NewRun(<<>>)) :
        row \in SnapshotRows }
    \cup
    UNION { { CallInput("call_should_manage_index", ix, <<>>, 2, 4, NewRun(n)) :
                ix \in Maybe(n, { StandardIndex(Millis(Now0 - Days(3), 0), w) :
                                     w \in BOOLEAN }) } :
            n \in SampleNames }
    \cup
    { CallInput("call_is_ready_for_snapshot", ix, <<>>, 2, 4, NewRun(Log1)) :
        ix \in Maybe(Log1, { [created |-> t, store |-> k, write |-> w] :
                               t \in CreationDates,
                               k \in {"standard", "remote_snapshot"},
                               w \in BOOLEAN }) }
    \cup
    { CallInput("call_validate_configuration", <<>>, <<>>, hot, total,
                [index_name |-> <<>>, settings |-> o]) :
        hot \in DayCounts, total \in DayCounts, o \in OtherSettings }
    \cup
    { CallInput("call_create_snapshot", <<>>, <<>>, 2, 4, NewRun(n)) :
        n \in {Log1, Alert1} }
    \cup
    { CallInput("call_validate_snapshot_health", <<>>, <<>>, 2, 4, NewRun(n)) :
        n \in {Log1, Alert1} }
    \cup
    { CallInput("call_wait_for_snapshot_completion", <<>>, <<>>, 2, 4,
                [index_name |-> Log1, max_wait_minutes |-> m]) :
        m \in 0..MaxWaitMinutes }

InitCalls ==
    /\ \E c \in CallInputs :
          /\ pc = c.pc
          /\ indices = c.ix
          /\ snapshots = c.sn
          /\ hot_storage_days = c.hot
          /\ total_retention_days = c.total
          /\ run = c.run
    /\ now = Now0
    /\ op = "call"
    /\ scan = NoScan
    /\ log = {}
    /\ last = NoRequest
    /\ first = NoFirst

\* one call of one of the helper functions
SpecCalls == InitCalls /\ [][Calls]_vars

-----------------------------------------------------------------------------
(* Claims about one run of _snapshot_and_replace_index *)

Returned == pc = "w_return"
ReturnedNormally == Returned /\ run.result \in {"replaced", "preserved"}
Original == run.index_name

\* C1: after a run of _snapshot_and_replace_index has returned, whatever the cluster
\* answered, either the original index is gone and the searchable mount exists, or
\* the original index exists and neither the mount nor the snapshot of its name does.
C1_TwoEndStates ==
    ReturnedNormally =>
        \/ Original \notin DOMAIN indices /\ MountedFrom(Original)
        \/ /\ Original \in DOMAIN indices
           /\ SearchableName(Original) \notin DOMAIN indices
           /\ Original \notin DOMAIN snapshots

\* C3: the delete of the original index is issued only after create, validate and
\* mount succeeded, in that order, in the same attempt, and no mutating request
\* follows it in the run.
C3_DeleteOriginalLast ==
    \A e \in log :
        e.by = "delete_original" =>
            /\ e.steps = <<"create", "validate", "mount">>
            /\ last.by = "delete_original"

\* the first half of C3 alone
C3_DeleteOnlyAfterMount ==
    \A e \in log : e.by = "delete_original" => e.steps = <<"create", "validate", "mount">>

\* every attempt of the run has failed, each at the snapshot (create or validate)
\* or at the mount
AllAttemptsFailedBeforeDelete ==
    /\ Returned
    /\ \/ run.result = "preserved"
       \/ run.result = "raised" /\ run.attempt = MaxRetries - 1
    /\ run.failed_at \subseteq {"create", "validate", "mount"}

\* C4: when every attempt fails at the snapshot or at the mount, no delete of the
\* original index is issued and the original index is still there at the end.
C4_ExhaustedPreservesOriginal ==
    AllAttemptsFailedBeforeDelete =>
        /\ \A e \in log : ~(e.req = "delete_index" /\ e.name = Original)
        /\ Original \in DOMAIN indices

\* C4 witness: the loop ran out after an attempt failed at the mount and cleanup
\* deleted the half-made artifacts
C4_Witness ==
    /\ AllAttemptsFailedBeforeDelete
    /\ run.result = "preserved"
    /\ "mount" \in run.failed_at
    /\ \E e \in log : e.by = "cleanup" /\ e.req = "delete_index"

-----------------------------------------------------------------------------
(* Claims about one run of cleanup_old_data *)

CleanupEnded == op = "cleanup" /\ pc = "done"
CleanupDeletes == { e \in log : e.by \in CleanupPhases }

\* C2: in no operation is the delete of a snapshot S requested while an index
\* mounted from S (S-snapshot) exists in the cluster.
C2_NoSnapshotDeleteWhileMounted ==
    \A e \in log : e.req = "delete_snapshot" => ~e.mounted

C6_UnknownAgeNotDeleted ==
    \A e \in CleanupDeletes :
        (e.req = "delete_snapshot" /\ e.present) => e.age >= 0

\* C6 (amended): phase 3 requests no delete of a snapshot whose age it computed
\* as unknown.
C6_UnknownAgeNotDeleted_Amended ==
    \A e \in CleanupDeletes :
        (e.req = "delete_snapshot" /\ e.by = "phase3") => e.age >= 0

\* cleanup ended, phase 3 saw a snapshot whose age is unknown, and it is still there
C6_Witness ==
    /\ CleanupEnded
    /\ \E k \in 1..Len(scan.snaps) :
          /\ scan.snaps[k].id = Log1
          /\ snapshot_age_days(scan.snaps[k].row, "ok", now) < 0
    /\ Log1 \in DOMAIN snapshots
    /\ \A e \in CleanupDeletes : ~(e.req = "delete_snapshot" /\ e.name = Log1)

\* C7: cleanup_old_data requests no delete of an existing item whose computed age
\* is 20 000 days or more, in any phase.
C7_NoDeleteOfRidiculousAge ==
    \A e \in CleanupDeletes : e.present => e.age < Days(RidiculousAgeDays)

\* C8: when cleanup_old_data requests the delete of a snapshot X that is past
\* retention while the managed index X-snapshot is mounted from it, it has
\* requested the delete of index X-snapshot before.
C8_MountDeletedBeforeSnapshot ==
    \A e \in CleanupDeletes :
        ( /\ e.req = "delete_snapshot"
          /\ e.mounted
          /\ should_manage_index(e.name)
          /\ e.age >= Days(total_retention_days) ) => e.unmounted

-----------------------------------------------------------------------------
(* Claims about the top-level operations *)

\* C9: the workflow is never invoked for an index that is the write index of an
\* alias when transition_old_indices_to_snapshots examines it.
C9_WriteIndexNotTransitioned ==
    \A e \in log : e.req = "transition" => ~e.write

\* C10: no operation requests a snapshot create, a searchable mount or an index
\* delete for an index whose name does not start with a managed pattern or ends
\* in "-write".
C10_OnlyManagedIndicesTouched ==
    \A e \in log :
        e.req \in {"create_snapshot", "mount", "delete_index"} =>
            should_manage_index(e.name)

\* the operation ended by an exception, with the rest of its items not looked at
Aborted == pc = "raised"

\* C11: in cleanup_old_data, transition_old_indices_to_snapshots and
\* restore_missing_searchable_snapshots, no failed cluster call (an error status
\* or an exception) aborts the operation.
C11_FailureNeverAborts ==
    op \in {"cleanup", "transition", "restore"} => ~Aborted

\* C12: restore_missing_searchable_snapshots requests the mount of an index of
\* a snapshot only when neither the index nor its searchable name is among the
\* existing indices.
C12_MountOnlyWhenBothMissing ==
    \A e \in log : (e.req = "mount" /\ e.by = "restore") => ~e.existing

\* C13: when hot_storage_days >= total_retention_days,
\* restore_missing_searchable_snapshots is skipped: it reads no catalog and
\* requests no mount.
C13_RestoreSkippedWithoutColdTier ==
    (op = "restore" /\ hot_storage_days >= total_retention_days) =>
        /\ pc = "r_start" \/ (pc = "done" /\ scan = NoScan)
        /\ \A e \in log : e.by # "restore"

\* the second half of C13 alone: no mount is requested
C13_NoMountWithoutColdTier ==
    (op = "restore" /\ hot_storage_days >= total_retention_days) =>
        \A e \in log : e.by # "restore"

\* check_and_rollover_by_size is over, by its return or by an exception
RolloverEnded == op = "rollover" /\ pc \in {"done", "raised"}

\* how many rollover requests the run sent for the alias
RolloversOf(alias_name) ==
    Cardinality({ k \in 1..Len(scan.sent) : scan.sent[k] = alias_name })

\* C21: check_and_rollover_by_size sends exactly one rollover request, with the
\* conditions max_size 50gb and max_age 30d, for each discovered write alias
\* whose write index resolves, and none for an alias whose write index does not.
C21_OneRolloverPerAlias ==
    RolloverEnded =>
        /\ \A alias_name \in Range(scan.list) :
              RolloversOf(alias_name) = IF alias_name \in scan.unresolved THEN 0 ELSE 1
        /\ \A e \in log :
              e.req = "rollover" =>
                  e.conditions = [max_size |-> <<50, "gb">>, max_age |-> <<30, "d">>]

\* the same of the runs that return: an answer of rolled_over false, or an
\* error status, is followed by the next alias and by no second request
C21_OneRolloverPerAliasOnReturn ==
    op = "rollover" /\ pc = "done" =>
        /\ \A alias_name \in Range(scan.list) :
              RolloversOf(alias_name) = IF alias_name \in scan.unresolved THEN 0 ELSE 1
        /\ \A e \in log :
              e.req = "rollover" =>
                  e.conditions = [max_size |-> <<50, "gb">>, max_age |-> <<30, "d">>]

\* the second of two runs, after a first run without failed attempt
SecondRun == first.pass = 2 /\ ~first.failed

\* C22: an operation that is run a second time right after a run without
\* cluster errors leaves the sets of indices and of snapshots as that run left
\* them, at every point of the second run.
C22_SecondRunChangesNothing ==
    SecondRun => first.between = <<DOMAIN indices, DOMAIN snapshots>>

\* the second run of the transition is over, after a first run that replaced an
\* index by its mount
C22_Witness ==
    /\ SecondRun
    /\ pc = "done"
    /\ op = "transition"
    /\ Log1 \in first.before[1] \ first.between[1]
    /\ SearchableName(Log1) \in first.between[1] \ first.before[1]

-----------------------------------------------------------------------------
(* Claims about the helper functions *)

ReturnedFrom(fn) == pc = "returned" /\ run.fn = fn

\* the creation date of the index lies after now
CreatedInFuture(index_name) ==
    /\ index_name \in DOMAIN indices
    /\ indices[index_name].created.k = "ms"
    /\ \/ indices[index_name].created.s > now
       \/ indices[index_name].created.s = now /\ indices[index_name].created.ms > 0

\* C14: _get_index_age_days gives exactly 0 for an index created in the future,
\* and an age that is not negative for every other one.
C14_FutureAgeIsZero ==
    ReturnedFrom("get_index_age_days") =>
        IF CreatedInFuture(run.index_name) THEN run.result = 0 ELSE run.result >= 0

\* the second half of C14 alone
C14_PastAgeNotNegative ==
    (ReturnedFrom("get_index_age_days") /\ ~CreatedInFuture(run.index_name)) =>
        run.result >= 0

\* the row _snapshot_age_days was called with, and the answer to its detail query
CalledRow == snapshots[run.reads.id]
DetailAnswered == run.reads.detail = "ok"

\* the non-zero numbers the row has under one of the keys
ListedEpochs(row, keys) ==
    { row[k].v : k \in { k \in keys : row[k].k = "int" /\ row[k].v # 0 } }

\* the non-zero time the detail answer has under the key, in seconds
DetailEpochs(row, key) ==
    IF DetailAnswered /\ row[key].k = "ms" /\ row[key].s # 0 THEN {row[key].s} ELSE {}

EndEpochs == ListedEpochs(CalledRow, {"end_epoch", "endEpoch"})
StartEpochs == ListedEpochs(CalledRow, {"start_epoch", "startEpoch"})
DetailEndEpochs == DetailEpochs(CalledRow, "end_time_in_millis")
DetailStartEpochs == DetailEpochs(CalledRow, "start_time_in_millis")

\* C15: _snapshot_age_days gives exactly -1 (day) when none of the four sources
\* has a non-zero epoch, and never the age of epoch 0.
C15_NoSourceGivesMinusOne ==
    ReturnedFrom("snapshot_age_days") =>
        /\ (EndEpochs \cup StartEpochs \cup DetailEndEpochs \cup DetailStartEpochs = {})
              => run.result = -Days(1)
        /\ run.result # now

\* the list has end_epoch 0, the detail query is answered with times of 0 or
\* none, and the call gave -1
C15_Witness ==
    /\ ReturnedFrom("snapshot_age_days")
    /\ CalledRow.end_epoch = Secs(0)
    /\ CalledRow.end_time_in_millis = Millis(0, 0)
    /\ DetailAnswered
    /\ EndEpochs \cup StartEpochs \cup DetailEndEpochs \cup DetailStartEpochs = {}
    /\ run.result = -Days(1)

\* the epoch of the first source, in the order of the code, that has one
FirstEpochs ==
    IF EndEpochs # {} THEN EndEpochs
    ELSE IF StartEpochs # {} THEN StartEpochs
    ELSE IF DetailEndEpochs # {} THEN DetailEndEpochs
    ELSE DetailStartEpochs

Argument == run.index_name

\* the name has "-write" as its last part
HasWriteEnding(name) == name # <<>> /\ name[Len(name)] = "-write"

\* the name begins with "log" or with "alert"
HasManagedBeginning(name) ==
    name # <<>> /\ name[1] \in {"log", "alert"}

CurrentWriteIndex(name) == name \in DOMAIN indices /\ indices[name].write

\* C18: _should_manage_index gives false for an index that is the current write
\* index, although its name begins with a managed pattern and does not end
\* with "-write".
C18_WriteIndexNotManaged ==
    ReturnedFrom("should_manage_index") /\ CurrentWriteIndex(Argument)
        => run.result = FALSE

\* C19: _is_ready_for_snapshot(n) is false when _is_write_index(n) or
\* _is_searchable_snapshot(n) answers true; otherwise it is true exactly when
\* the age _get_index_age_days(n) gives is at least hot_storage_days, an age
\* equal to it included.
C19_ReadyIffOldEnough ==
    ReturnedFrom("is_ready_for_snapshot") =>
        IF run.reads.is_write_index \/ run.reads.is_searchable_snapshot
        THEN run.result = FALSE
        ELSE run.result = (run.reads.age_days >= hot_storage_days * 86400)

\* an index exactly hot_storage_days old, neither write index nor mount, is ready
C19_Witness ==
    /\ ReturnedFrom("is_ready_for_snapshot")
    /\ ~run.reads.is_write_index
    /\ ~run.reads.is_searchable_snapshot
    /\ run.reads.age_days = hot_storage_days * 86400
    /\ run.result = TRUE

\* the five conditions on the settings under which the constructor must fail
BadConfiguration ==
    \/ hot_storage_days < 0
    \/ hot_storage_days > total_retention_days
    \/ run.reads.rollover_size_gb <= 0
    \/ run.reads.rollover_age_days <= 0
    \/ run.reads.managed_index_patterns = {}

\* C20: Ilm(settings) fails, before any request to the cluster, exactly when
\* hot_storage_days < 0, hot_storage_days > total_retention_days,
\* rollover_size_gb <= 0, rollover_age_days <= 0 or there is no managed pattern.
C20_ConstructorValidates ==
    ReturnedFrom("validate_configuration") =>
        /\ (run.result # "ok") <=> BadConfiguration
        /\ log = {}

\* the constructor failed on rollover_age_days alone
C20_Witness ==
    /\ ReturnedFrom("validate_configuration")
    /\ hot_storage_days = 2
    /\ total_retention_days = 4
    /\ run.reads.rollover_size_gb = 50
    /\ run.reads.rollover_age_days = 0
    /\ run.reads.managed_index_patterns # {}
    /\ run.result # "ok"

-----------------------------------------------------------------------------
(* Claims about the steps of the sweep and of the workflow *)

\* the age the list of phase 3 gives the snapshot by itself, when it has a
\* usable end or start epoch
ListedAge(row) ==
    LET ends == ListedEpochs(row, {"end_epoch", "endEpoch"})
        starts == ListedEpochs(row, {"start_epoch", "startEpoch"})
    IN  IF ends # {} THEN {now - e : e \in ends}
        ELSE {now - e : e \in starts}

\* the snapshots of the list of phase 3 that are due: age known from the list,
\* below 20 000 days, and at least total_retention_days
DueSnapshots ==
    { scan.snaps[k].id : k \in { j \in 1..Len(scan.snaps) :
          \E age \in ListedAge(scan.snaps[j].row) :
              /\ age >= 0
              /\ age < 20000 * 86400
              /\ age >= total_retention_days * 86400 } }

Phase3Deletes == { e \in log : e.req = "delete_snapshot" /\ e.by = "phase3" }

\* C23: phase 3 of cleanup_old_data issues a delete for every snapshot whose age
\* is known, below 20 000 days and at least total_retention_days, and for no
\* snapshot younger than total_retention_days.
C23_DueSnapshotsDeleted ==
    op = "cleanup" /\ pc \in {"done", "raised"} =>
        /\ \A name \in DueSnapshots : \E e \in Phase3Deletes : e.name = name
        /\ \A e \in Phase3Deletes : e.age >= total_retention_days * 86400

\* the same of the sweeps that return
C23_DueSnapshotsDeletedOnReturn ==
    op = "cleanup" /\ pc = "done" =>
        /\ \A name \in DueSnapshots : \E e \in Phase3Deletes : e.name = name
        /\ \A e \in Phase3Deletes : e.age >= total_retention_days * 86400

\* C24: a run of the workflow makes at most 3 attempts, calls the cleanup
\* exactly once after each failed attempt, the last included, and none after
\* the attempt that succeeded.
C24_OneCleanupPerFailedAttempt ==
    op = "workflow" =>
        /\ run.attempt <= 3
        /\ run.cleanups <= 1
        /\ pc = "w_backoff" => run.cleanups = 1
        /\ run.result = "replaced" => run.cleanups = 0

\* the attempts are at most 3, and a run that replaced the index stopped there
C24_AtMostThreeAttempts ==
    op = "workflow" =>
        /\ run.attempt <= 3
        /\ pc = "w_create_snapshot" => run.attempt < 3
        /\ run.result = "replaced" => pc = "w_return"

\* a workflow that can take a step takes it
FairTransition == SpecTransition /\ WF_vars(Workflow)

\* C24, termination: every run of the workflow comes to its end
C24_Terminates == <>(pc = "w_return")

\* the next attempt is about to start, after `k` failed ones
AfterFailedAttempt(k) == op = "workflow" /\ pc = "w_attempt" /\ run.attempt = k

-----------------------------------------------------------------------------
(* Claims about the steps of one attempt *)

Waited == ReturnedFrom("wait_for_snapshot_completion")

\* the answers the status requests of the call got, in turn
Polled == run.reads.polled

\* the polls the limit of the call allows
PollLimit == (run.reads.max_wait_minutes * 60) \div 30

CompletedStates == {"SUCCESS", "PARTIAL"}
InProgressStates == {"IN_PROGRESS", "STARTED", "INIT"}
UnrecognizedStates == {"UNKNOWN", "ABORTED"}

\* the polls that observed a snapshot still in progress, or a state without a name
InProgressPolls ==
    { k \in 1..Len(Polled) : Polled[k] \in InProgressStates \cup UnrecognizedStates }

\* C26: _wait_for_snapshot_completion ends with success exactly when a poll
\* observes SUCCESS or PARTIAL, and with failure when one observes FAILED; after
\* IN_PROGRESS, STARTED, INIT or a state it does not recognize it polls again,
\* unless that was the last poll of the maximum wait, and then it ends with
\* failure.
C26_PollingVerdict ==
    Waited =>
        /\ run.result = (\E k \in 1..Len(Polled) : Polled[k] \in CompletedStates)
        /\ (\E k \in 1..Len(Polled) : Polled[k] = "FAILED") => ~run.result
        /\ \A k \in 1..Len(Polled) :
              Polled[k] \in CompletedStates \cup {"FAILED"} => k = Len(Polled)
        /\ \A k \in InProgressPolls : k < PollLimit => k < Len(Polled)
        /\ (PollLimit \in InProgressPolls) => ~run.result

\* an unrecognized state was polled through, and PARTIAL ended the call with success
C26_Witness ==
    /\ Waited
    /\ Len(Polled) = 2
    /\ Polled[1] = "ABORTED"
    /\ Polled[2] = "PARTIAL"
    /\ run.result

\* C27: the polling ends after at most (max_wait_minutes * 60) / 30 status
\* requests, sleeps 30 seconds after each observation of a snapshot in progress
\* and after nothing else, and returns failure after the last request allowed
\* when all of them observed it in progress: 2 polls and 2 waits for 1 minute.
C27_PollingBounded ==
    Waited =>
        /\ Len(Polled) <= PollLimit
        /\ Len(run.reads.slept) = Cardinality(InProgressPolls)
        /\ \A k \in 1..Len(run.reads.slept) : run.reads.slept[k] = 30
        /\ InProgressPolls = 1..Len(Polled) =>
              /\ ~run.result
              /\ Len(Polled) = PollLimit
              /\ Len(run.reads.slept) = PollLimit
        /\ (run.reads.max_wait_minutes = 1 /\ InProgressPolls = 1..Len(Polled)) =>
              Len(Polled) = 2 /\ Len(run.reads.slept) = 2

\* a limit of one minute, the snapshot in progress at both polls
C27_Witness ==
    /\ Waited
    /\ run.reads.max_wait_minutes = 1
    /\ Polled = <<"IN_PROGRESS", "STARTED">>
    /\ run.reads.slept = <<30, 30>>
    /\ ~run.result

\* C28: _create_snapshot asks for a snapshot of the one index, not a partial
\* one; after a 200 or a 400 it polls for completion and returns what the
\* polling returned; after any other status it returns failure and polls nothing.
C28_CreateOrReuse ==
    ReturnedFrom("create_snapshot") =>
        /\ run.reads.body = [indices |-> <<run.index_name>>, partial |-> FALSE]
        /\ ~run.reads.response.raised =>
              IF run.reads.response.status_code \in {200, 400}
              THEN /\ Len(run.reads.polled) >= 1
                   /\ run.reads.completion \in {"True", "False"}
                   /\ run.result = run.reads.completion
              ELSE /\ run.reads.polled = <<>>
                   /\ run.reads.completion = "none"
                   /\ run.result = "False"

\* the snapshot existed already (400) and the polling found it complete
C28_Witness ==
    /\ ReturnedFrom("create_snapshot")
    /\ run.reads.response = Status(400)
    /\ run.reads.polled = <<"SUCCESS">>
    /\ run.result = "True"

\* the detail of the snapshot came with status 200 and reports one of `states`
Reports(response, states) ==
    /\ ~response.raised
    /\ response.status_code = 200
    /\ "snapshots" \in DOMAIN response.body
    /\ response.body.snapshots # <<>>
    /\ "state" \in DOMAIN response.body.snapshots[1]
    /\ response.body.snapshots[1].state \in states

\* the failures the detail lists
ReportedFailures(response) == response.body.snapshots[1].failures

ReplacedOnPartial ==
    /\ op = "workflow"
    /\ Returned
    /\ run.result = "replaced"
    /\ run.index_name \notin DOMAIN indices
    /\ run.index_name \in DOMAIN snapshots
    /\ snapshots[run.index_name].state = "PARTIAL"

\* _create_searchable_snapshot was called in the current attempt and has ended
MountEnded == op = "workflow" /\ run.mount.result # "none"

\* the requests of that call, in turn
MountRequests == [k \in 1..Len(run.mount.requests) |-> run.mount.requests[k].req]

\* the call ends with success only when its mount request was answered 200
SuccessOnlyOn200 ==
    \A k \in 1..Len(run.mount.requests) :
        run.mount.requests[k].req = "mount" =>
            (run.mount.result = "True") = (run.mount.requests[k].outcome = "ok")

\* C30: when <name>-snapshot is found to exist and to be a searchable mount,
\* _create_searchable_snapshot returns success and issues no request; when it is
\* found to exist and to be no mount, the delete of that index and then one mount
\* request are issued; when it is not found, one mount request is issued; the
\* result is success only on a 200.
C30_MountIdempotent ==
    MountEnded =>
        /\ (run.mount.index_exists = "True" /\ run.mount.is_searchable_snapshot = "True")
              => run.mount.result = "True" /\ MountRequests = <<>>
        /\ (run.mount.index_exists = "True" /\ run.mount.is_searchable_snapshot = "False")
              => MountRequests = <<"delete_index", "mount">>
        /\ run.mount.index_exists = "False" => MountRequests = <<"mount">>
        /\ SuccessOnlyOn200

\* C30 amended: as C30, but when the delete of the index that is no mount raises,
\* the call ends there with that exception and issues no mount request; when the
\* delete is answered, whatever the answer, one mount request follows it.
C30_MountIdempotentUnlessDeleteRaises ==
    MountEnded =>
        /\ (run.mount.index_exists = "True" /\ run.mount.is_searchable_snapshot = "True")
              => run.mount.result = "True" /\ MountRequests = <<>>
        /\ (run.mount.index_exists = "True" /\ run.mount.is_searchable_snapshot = "False")
              => IF Raised(run.mount.requests[1].outcome)
                 THEN MountRequests = <<"delete_index">> /\ run.mount.result = "raised"
                 ELSE MountRequests = <<"delete_index", "mount">>
        /\ run.mount.index_exists = "False" => MountRequests = <<"mount">>
        /\ SuccessOnlyOn200

\* an index of the searchable name that is no mount: its delete was refused, the
\* mount request followed and was refused too
C30_Witness ==
    /\ MountEnded
    /\ run.mount.index_exists = "True"
    /\ run.mount.is_searchable_snapshot = "False"
    /\ MountRequests = <<"delete_index", "mount">>
    /\ run.mount.requests[1].outcome = "err"
    /\ run.mount.result = "False"

\* the delete of the index that is no mount raised: no mount request
MountDeleteRaised ==
    /\ MountEnded
    /\ MountRequests = <<"delete_index">>
    /\ run.mount.result = "raised"

\* the index that is no mount was deleted and the snapshot mounted in its place
MountReplaced ==
    /\ MountEnded
    /\ MountRequests = <<"delete_index", "mount">>
    /\ run.mount.result = "True"

-----------------------------------------------------------------------------
(* Claims about the cleanup between attempts and about the sweeps *)

\* the requests of the latest _cleanup_failed_snapshot of the workflow, in turn
CleanupRequests == run.cleanup.requests
DeleteOfMount(index_name) == [req |-> "delete_index", name |-> SearchableName(index_name)]
DeleteOfSnapshot(index_name) == [req |-> "delete_snapshot", name |-> index_name]

\* C31: _cleanup_failed_snapshot deletes the index <name>-snapshot before the
\* snapshot <name> and never after it, and it issues either delete only when the
\* existence check of that artifact answered that it exists.
C31_CleanupMountBeforeSnapshot ==
    op = "workflow" =>
        /\ \A k \in 1..Len(CleanupRequests) :
              CleanupRequests[k] \in {DeleteOfMount(run.index_name),
                                      DeleteOfSnapshot(run.index_name)}
        /\ \A j, k \in 1..Len(CleanupRequests) :
              ( /\ CleanupRequests[j] = DeleteOfSnapshot(run.index_name)
                /\ CleanupRequests[k] = DeleteOfMount(run.index_name) ) => k < j
        /\ Len(CleanupRequests) <= 2
        /\ (\E k \in 1..Len(CleanupRequests) :
               CleanupRequests[k].req = "delete_index")
              => run.cleanup.index_exists = "True"
        /\ (\E k \in 1..Len(CleanupRequests) :
               CleanupRequests[k].req = "delete_snapshot")
              => run.cleanup.snapshot_exists = "True"

\* a cleanup that found both and deleted the mount, then the snapshot
C31_Witness ==
    /\ op = "workflow"
    /\ run.cleanup.index_exists = "True"
    /\ run.cleanup.snapshot_exists = "True"
    /\ CleanupRequests = <<DeleteOfMount(run.index_name), DeleteOfSnapshot(run.index_name)>>
    /\ run.index_name \notin DOMAIN snapshots

\* phase 1 of cleanup_old_data has just looked at a mount
Phase1Examined == op = "cleanup" /\ scan.examined.name # <<>>

\* C32: in phase 1 the age of a managed mount is the age of the snapshot it is
\* named after; the age of the index itself is taken only when that snapshot is
\* not listed or its age is unknown; the delete of the mount is issued exactly
\* when the age taken is at least total_retention_days.
C32_MountAgedByItsSnapshot ==
    Phase1Examined =>
        /\ (scan.examined.found /\ scan.examined.snapshot_age >= 0)
              => scan.examined.age_days = scan.examined.snapshot_age
        /\ ~(scan.examined.found /\ scan.examined.snapshot_age >= 0)
              => scan.examined.age_days = scan.examined.index_age
        /\ scan.examined.deleted = (scan.examined.age_days >= Days(total_retention_days))
        /\ scan.examined.deleted =
              ( /\ last.req = "delete_index"
                /\ last.name = scan.examined.name
                /\ last.by = "phase1"
                /\ last.age = scan.examined.age_days )

\* a mount of one day over a snapshot of five days was deleted
C32_Witness ==
    /\ Phase1Examined
    /\ scan.examined.found
    /\ scan.examined.snapshot_age = Days(5)
    /\ scan.examined.index_age = Days(1)
    /\ scan.examined.deleted
    /\ scan.examined.name \notin DOMAIN indices

\* C33: no operation issues the delete of an index that is the write index of
\* an alias at that time; phase 2 of cleanup_old_data is one of them.
C33_NoDeleteOfWriteIndex ==
    \A e \in log : e.req = "delete_index" => ~e.write

\* C34: an index whose alias lookup failed or whose creation date could not be
\* read is skipped: the workflow is not invoked for it and cleanup_old_data
\* issues no delete of it, whatever the configuration.
C34_FailSoftIsSkipped ==
    scan.lookup.name # <<>> => ~(scan.lookup.alias_failed \/ scan.lookup.age_unread)

\* the alias lookup of the index failed, and the workflow was invoked for it
TransitionedAfterFailedLookup ==
    /\ op = "transition"
    /\ scan.lookup.name # <<>>
    /\ scan.lookup.alias_failed
    /\ ~scan.lookup.age_unread

\* the creation date of the index was not read, and phase 2 issued its delete
DeletedWithAgeUnread ==
    /\ op = "cleanup"
    /\ scan.lookup.name # <<>>
    /\ scan.lookup.age_unread

\* the requests of the restore that mount a snapshot
RestoreMounts == { e \in log : e.req = "mount" /\ e.by = "restore" }

\* C35: in one run of the job the restore mounts no snapshot whose age is
\* total_retention_days or more, and so none as an index of which the cleanup
\* of the same run issued the delete.
C35_RestoreMountsNothingExpired ==
    \A e \in RestoreMounts :
        /\ e.age < Days(total_retention_days)
        /\ ~\E d \in log : /\ d.req = "delete_index"
                           /\ d.by \in CleanupPhases
                           /\ d.name = SearchableName(e.name)

\* no request of the job failed: phase 1 deleted the mount of the snapshot of
\* unbelievable age, phase 3 left the snapshot alone, and the restore mounted it
RemountedWithoutError ==
    /\ op = "restore"
    /\ pc = "done"
    /\ \E e \in RestoreMounts : e.age >= Days(RidiculousAgeDays)
    /\ SearchableName(Log1) \in DOMAIN indices
    /\ \A e \in log : e.req # "delete_snapshot"

-----------------------------------------------------------------------------
(* Two runs of the workflow in flight on one index *)

\* the scheduler takes the processor from the run that is stepping and gives it
\* to the other one, between two requests
Yield ==
    /\ op = "workflow"
    /\ scan.other.pc # "none"
    /\ pc' = scan.other.pc
    /\ run' = scan.other.run
    /\ scan' = [scan EXCEPT !.other = [pc |-> pc, run |-> run]]
    /\ UNCHANGED <<cluster, now, config, op, history>>

\* two runs of _snapshot_and_replace_index at their start, on a cluster that
\* answers every request and fails only the ones it cannot carry out
InitRace ==
    /\ \E c \in TransitionClusters : indices = c.ix /\ snapshots = c.sn
    /\ now = Now0
    /\ hot_storage_days = 2
    /\ total_retention_days = 4
    /\ op = "workflow"
    /\ pc = "w_attempt"
    /\ scan = [NoScan EXCEPT !.other = [pc |-> "w_attempt", run |-> NewRun(Log1)]]
    /\ run = NewRun(Log1)
    /\ log = {}
    /\ last = NoRequest
    /\ first = [NoFirst EXCEPT !.pass = 1]

NextRace == Workflow \/ Yield
SpecRace == InitRace /\ [][NextRace]_vars

-----------------------------------------------------------------------------
(* Claims about runs of the workflow that overlap *)

\* the delete of the original index was issued, and neither the index, nor the
\* snapshot of its name, nor its mount exists
Lost(index_name) ==
    /\ \E e \in log : e.by = "delete_original" /\ e.name = index_name
    /\ index_name \notin DOMAIN indices
    /\ index_name \notin DOMAIN snapshots
    /\ SearchableName(index_name) \notin DOMAIN indices

\* C36, second half: a run of the workflow that is alone on its index never
\* reaches the state in which the original index is deleted while neither its
\* snapshot nor its mount exists.
C36_AloneLosesNothing ==
    op = "workflow" => ~Lost(run.index_name)

\* C36, first half: of two runs in flight on one index, one has replaced the
\* index and the index, its snapshot and its mount are all gone
LostByRace ==
    /\ scan.other.pc # "none"
    /\ Returned /\ run.result = "replaced"
    /\ Lost(run.index_name)

-----------------------------------------------------------------------------
(* Claims about the mounts of the restore *)

\* C39: one run of restore_missing_searchable_snapshots asks at most once for
\* the mount of a given name, also when several of the snapshots it restores
\* from hold the same index.
C39_OneMountPerName ==
    op = "restore" =>
        \A i, k \in 1..Len(scan.sent) : scan.sent[i] = scan.sent[k] => i = k

\* C39: the second request follows a first one that the cluster carried out
MountedTwice ==
    /\ op = "restore"
    /\ \E i, k \in 1..Len(scan.sent) : i < k /\ scan.sent[i] = scan.sent[k]
    /\ \A e \in log : e.req = "mount" => e.name = Log1
    /\ SearchableName(Log1) \in DOMAIN indices

-----------------------------------------------------------------------------
(* Claims about the names *)

\* C40: of a name that ends in "-snapshot", _get_corresponding_snapshot_name and
\* the lookup of phase 1 give the name without that ending, the rest of the
\* name as it was, so that adding the ending again gives the name back; a name
\* without the ending comes back unchanged.
C40_DerivationsInverse ==
    ReturnedFrom("get_corresponding_snapshot_name") =>
        IF EndsWith(run.index_name, SnapshotSuffix)
        THEN /\ SearchableName(run.result) = run.index_name
             /\ SearchableName(run.reads.backing) = run.index_name
        ELSE run.result = run.index_name

\* C40: the names agree when "-snapshot" is at the end only
DerivedFromPlainMount ==
    /\ ReturnedFrom("get_corresponding_snapshot_name")
    /\ run.index_name = SearchableName(Log1)
    /\ run.result = Log1
    /\ run.reads.backing = Log1

-----------------------------------------------------------------------------
(* main.py: the health jobs of the scheduler and get_health_monitor *)

\* the two jobs of the scheduler that call get_health_monitor; max_instances=1
\* keeps one job from overlapping itself, the pool of 20 threads lets the two
\* overlap each other
HealthJobs == {"frequent_mgmt_job", "daily_mgmt_job"}

\* _global_health_monitor = None; an OpenSearchHealthMonitor is named after the
\* job whose thread constructed it
None == "None"

\* run: for each job its position in get_health_monitor, the object its thread
\* has constructed and not stored yet, and the object its last call returned;
\* scan: the module's global, and history: the objects constructed so far;
\* log: history: the objects the calls returned
InitMonitor ==
    /\ indices = <<>>
    /\ snapshots = <<>>
    /\ now = Now0
    /\ hot_storage_days = 2
    /\ total_retention_days = 4
    /\ op = "health"
    /\ pc = "scheduler"
    /\ scan = [global_health_monitor |-> None, constructed |-> {}]
    /\ run = [j \in HealthJobs |-> [pc |-> "idle", made |-> None, health_monitor |-> None]]
    /\ log = {}
    /\ last = NoRequest
    /\ first = NoFirst

\* the scheduler starts the job on a thread of the pool: the job calls
\* get_health_monitor
HealthJob_Start(j) ==
    /\ op = "health"
    /\ run[j].pc = "idle"
    /\ run' = [run EXCEPT ![j].pc = "test"]
    /\ UNCHANGED <<cluster, now, config, op, pc, scan, history>>

\* if _global_health_monitor is None
GetHealthMonitor_Test(j) ==
    /\ op = "health"
    /\ run[j].pc = "test"
    /\ run' = [run EXCEPT ![j].pc = IF scan.global_health_monitor = None
                                    THEN "construct" ELSE "return"]
    /\ UNCHANGED <<cluster, now, config, op, pc, scan, history>>

\* OpenSearchHealthMonitor(settings_obj, webhook_url)
GetHealthMonitor_Construct(j) ==
    /\ op = "health"
    /\ run[j].pc = "construct"
    /\ run' = [run EXCEPT ![j].pc = "store", ![j].made = j]
    /\ scan' = [scan EXCEPT !.constructed = @ \cup {j}]
    /\ UNCHANGED <<cluster, now, config, op, pc, history>>

\* _global_health_monitor = <the new object>
GetHealthMonitor_Store(j) ==
    /\ op = "health"
    /\ run[j].pc = "store"
    /\ scan' = [scan EXCEPT !.global_health_monitor = run[j].made]
    /\ run' = [run EXCEPT ![j].pc = "return", ![j].made = None]
    /\ UNCHANGED <<cluster, now, config, op, pc, history>>

\* return _global_health_monitor; the job runs its checks on it and ends
GetHealthMonitor_Return(j) ==
    /\ op = "health"
    /\ run[j].pc = "return"
    /\ run' = [run EXCEPT ![j].pc = "idle",
                          ![j].health_monitor = scan.global_health_monitor]
    /\ log' = log \cup {[job |-> j, health_monitor |-> scan.global_health_monitor]}
    /\ UNCHANGED <<cluster, now, config, op, pc, scan, last, first>>

Monitor_Start == \E j \in HealthJobs : HealthJob_Start(j)
Monitor_Test == \E j \in HealthJobs : GetHealthMonitor_Test(j)
Monitor_Construct == \E j \in HealthJobs : GetHealthMonitor_Construct(j)
Monitor_Store == \E j \in HealthJobs : GetHealthMonitor_Store(j)
Monitor_Return == \E j \in HealthJobs : GetHealthMonitor_Return(j)

NextMonitor ==
    \/ Monitor_Start
    \/ Monitor_Test
    \/ Monitor_Construct
    \/ Monitor_Store
    \/ Monitor_Return

\* the health jobs of one scheduler, over and over
SpecMonitor == InitMonitor /\ [][NextMonitor]_vars

-----------------------------------------------------------------------------
(* health_monitor.py: check_cluster_health and its timer of the yellow status *)

SecondsPerMinute == 60
\* timedelta(minutes=15)
YellowAlertMinutes == 15
\* HEALTH_CHECK_INTERVAL, in seconds
HealthCheckInterval == 300
\* the clock stops after this many minutes
MaxElapsedMinutes == 30

\* the time between two checks: the interval of the job, and a longer one
Waits == {HealthCheckInterval, HealthCheckInterval + 2 * SecondsPerMinute}

\* data.get("status", "unknown") of an answer, and "fail" for a request that
\* raised or was answered with an error status
HealthStatuses == {"green", "yellow", "red", "unknown"}
HealthAnswers == HealthStatuses \cup {"fail"}

\* self._yellow_status_start_time: None, or a time
Unset == <<>>
At(t) == <<t>>

HealthAlert(check_name, severity) == [check_name |-> check_name, severity |-> severity]

\* variant: the alert is due after ten minutes
yellow_sustained_Sooner(t, start) ==
    t - start[1] >= (YellowAlertMinutes - 5) * SecondsPerMinute

\* now - self._yellow_status_start_time >= timedelta(minutes=15)
yellow_sustained(t, start) ==
    t - start[1] >= YellowAlertMinutes * SecondsPerMinute

\* check_cluster_health: the alerts it returns and self._yellow_status_start_time
\* when it returns, for the answer `status` at time t with the timer at `start`
check_cluster_health(status, t, start) ==
    IF status = "fail"
    THEN [alerts |-> <<HealthAlert("cluster_health_error", "HIGH")>>, start |-> start]
    ELSE IF status # "green"
    THEN IF status = "yellow"
         THEN IF start = Unset
              THEN [alerts |-> <<>>, start |-> At(t)]
              ELSE IF yellow_sustained(t, start)
              THEN [alerts |-> <<HealthAlert("cluster_health", "MEDIUM")>>, start |-> start]
              ELSE [alerts |-> <<>>, start |-> start]
         ELSE [alerts |-> <<HealthAlert("cluster_health", "HIGH")>>, start |-> Unset]
    ELSE [alerts |-> <<>>, start |-> Unset]

\* history: the time of the first of the yellow answers that have come in a
\* row, no answer of another colour between them
YellowSince(status, t, since) ==
    IF status = "fail" THEN since
    ELSE IF status = "yellow" THEN (IF since = Unset THEN At(t) ELSE since)
    ELSE Unset

\* scan: self._yellow_status_start_time; run: history of the last call: the
\* answer, the timer before it, the alerts it returned, and yellow_since
NoCheck == [status |-> "none", before |-> Unset, alerts |-> <<>>, yellow_since |-> Unset]

InitHealth ==
    /\ indices = <<>>
    /\ snapshots = <<>>
    /\ now = Now0
    /\ hot_storage_days = 2
    /\ total_retention_days = 4
    /\ op = "check_cluster_health"
    /\ pc = "waiting"
    /\ scan = [yellow_status_start_time |-> Unset]
    /\ run = NoCheck
    /\ log = {}
    /\ last = NoRequest
    /\ first = NoFirst

\* one call of check_cluster_health
Health_Check ==
    /\ op = "check_cluster_health"
    /\ \E status \in HealthAnswers :
          LET r == check_cluster_health(status, now, scan.yellow_status_start_time)
          IN  /\ scan' = [scan EXCEPT !.yellow_status_start_time = r.start]
              /\ run' = [status |-> status,
                         before |-> scan.yellow_status_start_time,
                         alerts |-> r.alerts,
                         yellow_since |-> YellowSince(status, now, run.yellow_since)]
    /\ pc' = "checked"
    /\ UNCHANGED <<cluster, now, config, op, history>>

\* the scheduler waits for the next run of the job
Health_Wait ==
    /\ op = "check_cluster_health"
    /\ \E w \in Waits :
          /\ now + w <= Now0 + MaxElapsedMinutes * SecondsPerMinute
          /\ now' = now + w
    /\ pc' = "waiting"
    /\ UNCHANGED <<cluster, config, op, scan, run, history>>

NextHealth == Health_Check \/ Health_Wait

\* the checks of the cluster health of one monitor, one after the other
SpecHealth == InitHealth /\ [][NextHealth]_vars

-----------------------------------------------------------------------------
(* Claims about the health monitor *)

\* C37: at most one OpenSearchHealthMonitor is ever constructed, and every call
\* of get_health_monitor returns the same object, whatever the interleaving of
\* the threads of the health jobs.
C37_OneHealthMonitor ==
    op = "health" =>
        /\ Cardinality(scan.constructed) <= 1
        /\ \A a, b \in log : a.health_monitor = b.health_monitor

\* C37: two calls have returned two different objects
ReturnedTwoMonitors ==
    /\ op = "health"
    /\ \E a, b \in log : a.health_monitor # b.health_monitor

\* C37: both calls were past the test of the global before either stored
BothConstruct ==
    /\ op = "health"
    /\ \A j \in HealthJobs : run[j].pc = "construct"

Alerted(severity) ==
    \E k \in 1..Len(run.alerts) : run.alerts[k].severity = severity

\* C38: a yellow answer with the timer unset sets it and returns no alert; a
\* yellow answer with the timer set returns a MEDIUM alert only when fifteen
\* minutes or more have passed since the first of the yellow answers in a row,
\* and leaves the timer; a green or a red answer unsets the timer, and a red one
\* returns a HIGH alert.
C38_SustainedYellow ==
    (op = "check_cluster_health" /\ pc = "checked") =>
        /\ (run.status = "yellow" /\ run.before = Unset) =>
              /\ scan.yellow_status_start_time = At(now)
              /\ run.alerts = <<>>
        /\ (run.status = "yellow" /\ run.before # Unset) =>
              /\ scan.yellow_status_start_time = run.before
              /\ Alerted("MEDIUM") =>
                    now - run.yellow_since[1] >= YellowAlertMinutes * SecondsPerMinute
        /\ run.status = "yellow" => run.yellow_since = scan.yellow_status_start_time
        /\ run.status \in {"green", "red"} => scan.yellow_status_start_time = Unset
        /\ run.status = "red" => Alerted("HIGH")
        /\ run.status = "green" => run.alerts = <<>>

\* C38: the MEDIUM alert of the answer that comes fifteen minutes after the
\* first yellow one
C38_Witness ==
    /\ op = "check_cluster_health" /\ pc = "checked"
    /\ run.status = "yellow"
    /\ now - run.yellow_since[1] = YellowAlertMinutes * SecondsPerMinute
    /\ Alerted("MEDIUM")

\* C38: yellow for fourteen minutes, and no alert
YellowNotYetSustained ==
    /\ op = "check_cluster_health" /\ pc = "checked"
    /\ run.status = "yellow"
    /\ now - run.yellow_since[1] = (YellowAlertMinutes - 1) * SecondsPerMinute
    /\ run.alerts = <<>>

====
